---- MODULE Spec2Model ----
(***************************************************************************)
(* A model of the production schedule reflow engine: the dependency graph, *)
(* the shift-aware date calculator, the constraint checker and the reflow  *)
(* service.                                                                *)
(*                                                                         *)
(* Instants are whole minutes since 1970-01-01T00:00Z (a Thursday).        *)
(* Work order and work center ids are small integers.                      *)
(***************************************************************************)
EXTENDS Integers, Sequences, FiniteSets, TLC

VARIABLES
    workOrders,              \* input.workOrders: the list handed to the operation
    workCenters,             \* input.workCenters
    clock,                   \* what DateTime.utc() returns when it is read
    pc,                      \* position of the running operation
    dag,                     \* the DependencyGraph built from workOrders
    orderedWorkOrders,       \* reflow: the topological order being walked
    workCenterAvailability,  \* reflow: work center id -> next free instant
    updatedWorkOrders,       \* reflow: the schedule emitted so far
    changes,                 \* reflow: the change log so far
    wcIdx,                   \* reflow: next work center of the availability loop
    woIdx,                   \* reflow: next work order of the scheduling loop
    result,                  \* reflow: the ReflowResult returned
    cyclesOut,               \* graph: what hasCycles() returned
    cycleOut,                \* graph: what getCycle() returned
    sortOut,                 \* graph: what topologicalSort() returned or threw
    calcIn,                  \* calculator: the arguments of calculateEndDate
    calcOut,                 \* calculator: what calculateEndDate returned or threw
    queryOut,                \* graph: the lookup called last and what it returned or threw
    validateOut,             \* checker: what validate() and isValid() returned or threw
    startOut,                \* start times: the DateUtils search called and its outcome
    loopState,               \* loops: the DateUtils loop being run, pass by pass
    calls                    \* two reflow calls at once: the input and the locals of each

vars == <<workOrders, workCenters, clock, pc, dag, orderedWorkOrders,
          workCenterAvailability, updatedWorkOrders, changes, wcIdx, woIdx,
          result, cyclesOut, cycleOut, sortOut, calcIn, calcOut, queryOut,
          validateOut, startOut, loopState, calls>>

(***************************************************************************)
(* Instants                                                                *)
(***************************************************************************)
MinutesPerHour == 60 * 1
MinutesPerDay == 24 * MinutesPerHour

\* The instant of day d (days since the epoch) at h:m UTC.
At(d, h, m) == d * MinutesPerDay + h * MinutesPerHour + m

DayOf(t) == t \div MinutesPerDay

\* DateTime.startOf('day')
startOfDay(t) == DayOf(t) * MinutesPerDay

\* DateTime.plus({ days: 1 }).startOf('day')
nextDayStart(t) == startOfDay(t) + MinutesPerDay

\* DateTime.set({ hour: h, minute: 0, second: 0, millisecond: 0 })
setHour(t, h) == startOfDay(t) + h * MinutesPerHour

\* DateTime.hour
hourOf(t) == (t % MinutesPerDay) \div MinutesPerHour

\* DateTime.weekday: 1 = Monday .. 7 = Sunday; day 0 of the epoch is a Thursday.
weekday(t) == ((DayOf(t) + 3) % 7) + 1

(***************************************************************************)
(* DateUtils                                                               *)
(***************************************************************************)
NoShift == [dayOfWeek |-> -1, startHour |-> 0, endHour |-> 0]

\* Array.find: the first shift of the list for the weekday, or null.
RECURSIVE findShift(_, _, _)
findShift(jsWeekday, shifts, k) ==
    IF k > Len(shifts) THEN NoShift
    ELSE IF shifts[k].dayOfWeek = jsWeekday THEN shifts[k]
    ELSE findShift(jsWeekday, shifts, k + 1)

\* getShiftForDay looking the Luxon weekday up as it is, Sunday being 7.
getShiftForDayByLuxonWeekday(luxonWeekday, shifts) ==
    findShift(luxonWeekday, shifts, 1)

getShiftForDay(luxonWeekday, shifts) ==
    LET jsWeekday == IF luxonWeekday = 7 THEN 0 ELSE luxonWeekday
    IN  findShift(jsWeekday, shifts, 1)

RECURSIVE effectiveEndLoop(_, _, _, _, _)
effectiveEndLoop(shiftStart, shiftEnd, maintenanceWindows, k, effectiveEnd) ==
    IF k > Len(maintenanceWindows) THEN effectiveEnd
    ELSE LET maintenanceStart == maintenanceWindows[k].startDate
             maintenanceEnd == maintenanceWindows[k].endDate
             capped ==
                 IF /\ maintenanceStart < shiftEnd
                    /\ maintenanceEnd > shiftStart
                    /\ maintenanceStart > shiftStart
                    /\ maintenanceStart < effectiveEnd
                 THEN maintenanceStart
                 ELSE effectiveEnd
         IN  effectiveEndLoop(shiftStart, shiftEnd, maintenanceWindows, k + 1, capped)

getEffectiveShiftEnd(shiftStart, shiftEnd, maintenanceWindows) ==
    effectiveEndLoop(shiftStart, shiftEnd, maintenanceWindows, 1, shiftEnd)

Min(a, b) == IF a < b THEN a ELSE b

maxDays == 365

\* The pass whose `continue' on a day without a shift neither counts the day
\* nor moves to the next one.
endDateStepStayingOnDayWithoutShift(loop, shifts, maintenanceWindows) ==
    LET currentDate == loop[1]
        remainingMinutes == loop[2]
        daysProcessed == loop[3] + 1
        shift == getShiftForDay(weekday(currentDate), shifts)
        shiftStart == setHour(currentDate, shift.startHour)
        shiftEnd == setHour(currentDate, shift.endHour)
        workStart == IF currentDate > shiftStart THEN currentDate ELSE shiftStart
        availableMinutes == shiftEnd - workStart
        minutesToWork == Min(remainingMinutes, availableMinutes)
        nextDay == nextDayStart(currentDate)
    IN  IF shift = NoShift THEN loop
        ELSE IF workStart >= shiftEnd THEN <<nextDay, remainingMinutes, daysProcessed>>
        ELSE IF remainingMinutes - minutesToWork > 0
        THEN <<nextDay, remainingMinutes - minutesToWork, daysProcessed>>
        ELSE <<workStart + minutesToWork, 0, daysProcessed>>

\* One pass of the body of the while loop of calculateEndDate: the next
\* <<currentDate, remainingMinutes, daysProcessed>>.
endDateStep(loop, shifts, maintenanceWindows) ==
    LET currentDate == loop[1]
        remainingMinutes == loop[2]
        daysProcessed == loop[3] + 1
        shift == getShiftForDay(weekday(currentDate), shifts)
        shiftStart == setHour(currentDate, shift.startHour)
        shiftEnd == setHour(currentDate, shift.endHour)
        workStart == IF currentDate > shiftStart THEN currentDate ELSE shiftStart
        effectiveShiftEnd == getEffectiveShiftEnd(workStart, shiftEnd, maintenanceWindows)
        availableMinutes == effectiveShiftEnd - workStart
        minutesToWork == Min(remainingMinutes, availableMinutes)
        nextDay == nextDayStart(currentDate)
    IN  CASE shift = NoShift -> <<nextDay, remainingMinutes, daysProcessed>>
          [] shift # NoShift /\ workStart >= shiftEnd ->
                 <<nextDay, remainingMinutes, daysProcessed>>
          [] shift # NoShift /\ workStart < shiftEnd /\ availableMinutes <= 0 ->
                 <<nextDay, remainingMinutes, daysProcessed>>
          [] OTHER ->
                 IF remainingMinutes - minutesToWork > 0
                 THEN <<nextDay, remainingMinutes - minutesToWork, daysProcessed>>
                 ELSE <<workStart + minutesToWork, remainingMinutes - minutesToWork,
                        daysProcessed>>

\* At most n passes of the while loop of calculateEndDate, stopping as soon as
\* its condition fails.  The passes are split in halves so that the evaluation
\* nests to a depth of log2(n) rather than n.
RECURSIVE endDatePasses(_, _, _, _)
endDatePasses(n, loop, shifts, maintenanceWindows) ==
    IF ~(loop[2] > 0 /\ loop[3] < maxDays) THEN loop
    ELSE IF n <= 1 THEN endDateStep(loop, shifts, maintenanceWindows)
    ELSE endDatePasses(n - (n \div 2),
                       endDatePasses(n \div 2, loop, shifts, maintenanceWindows),
                       shifts, maintenanceWindows)

\* The while loop of calculateEndDate: its final <<currentDate, remainingMinutes,
\* daysProcessed>>.  Each pass adds one to daysProcessed, so the loop has ended
\* after maxDays passes.
endDateLoop(loop, shifts, maintenanceWindows) ==
    endDatePasses(maxDays, loop, shifts, maintenanceWindows)

\* [ok |-> TRUE, date |-> end] or, when the error is thrown, [ok |-> FALSE, ...].
calculateEndDate(startDate, durationMinutes, shifts, maintenanceWindows) ==
    LET final == endDateLoop(<<startDate, durationMinutes, 0>>, shifts,
                             maintenanceWindows)
    IN  IF final[3] >= maxDays
        THEN [ok |-> FALSE, date |-> 0, error |-> "Could not schedule work order within 365 days"]
        ELSE [ok |-> TRUE, date |-> final[1], error |-> ""]

RECURSIVE overlapsMaintenanceFrom(_, _, _, _)
overlapsMaintenanceFrom(start, end, maintenanceWindows, k) ==
    IF k > Len(maintenanceWindows) THEN FALSE
    ELSE IF start < maintenanceWindows[k].endDate /\ end > maintenanceWindows[k].startDate
    THEN TRUE
    ELSE overlapsMaintenanceFrom(start, end, maintenanceWindows, k + 1)

\* overlapsMaintenance counting a period that only touches a window.
overlapsMaintenanceTouching(startDate, endDate, maintenanceWindows) ==
    \E k \in 1..Len(maintenanceWindows) :
        /\ startDate <= maintenanceWindows[k].endDate
        /\ endDate >= maintenanceWindows[k].startDate

overlapsMaintenance(startDate, endDate, maintenanceWindows) ==
    overlapsMaintenanceFrom(startDate, endDate, maintenanceWindows, 1)

\* isDuringShift with the end hour taken as part of the shift.
isDuringShiftThroughEndHour(date, shifts) ==
    LET shift == getShiftForDay(weekday(date), shifts)
    IN  IF shift = NoShift THEN FALSE
        ELSE hourOf(date) >= shift.startHour /\ hourOf(date) <= shift.endHour

isDuringShift(date, shifts) ==
    LET shift == getShiftForDay(weekday(date), shifts)
    IN  IF shift = NoShift THEN FALSE
        ELSE hourOf(date) >= shift.startHour /\ hourOf(date) < shift.endHour

\* The comparison of closed periods: touching counts as overlapping.
timePeriodsOverlapClosed(start1, end1, start2, end2) ==
    start1 <= end2 /\ end1 >= start2

timePeriodsOverlap(start1, end1, start2, end2) ==
    start1 < end2 /\ end1 > start2

shiftSearchDays == 30

RECURSIVE nextShiftLoop(_, _, _)
nextShiftLoop(currentDate, shifts, i) ==
    IF ~(i < shiftSearchDays)
    THEN [ok |-> FALSE, date |-> 0, error |-> "No shift found in the next 30 days"]
    ELSE LET shift == getShiftForDay(weekday(currentDate), shifts)
             shiftStart == setHour(currentDate, shift.startHour)
         IN  IF shift # NoShift /\ shiftStart > currentDate
             THEN [ok |-> TRUE, date |-> shiftStart, error |-> ""]
             ELSE nextShiftLoop(nextDayStart(currentDate), shifts, i + 1)

findNextShiftStart(fromDate, shifts) ==
    nextShiftLoop(fromDate, shifts, 0)

Epoch == 0 * 1

\* parentEndTimes.reduce(...): the latest of the parent end times and the epoch.
RECURSIVE latestOf(_, _, _)
latestOf(parentEndTimes, k, latest) ==
    IF k > Len(parentEndTimes) THEN latest
    ELSE latestOf(parentEndTimes, k + 1,
                  IF parentEndTimes[k] > latest THEN parentEndTimes[k] ELSE latest)

\* getEarliestStartTime taking the parents' end alone as the earliest possible
\* instant.
getEarliestStartTimeAfterParentsOnly(parentEndTimes, workCenterAvailableFrom, shifts) ==
    LET earliestPossible == latestOf(parentEndTimes, 1, Epoch)
        shift == getShiftForDay(weekday(earliestPossible), shifts)
        shiftStart == setHour(earliestPossible, shift.startHour)
        shiftEnd == setHour(earliestPossible, shift.endHour)
    IN  IF shift = NoShift THEN findNextShiftStart(earliestPossible, shifts)
        ELSE IF earliestPossible < shiftStart
        THEN [ok |-> TRUE, date |-> shiftStart, error |-> ""]
        ELSE IF earliestPossible < shiftEnd
        THEN [ok |-> TRUE, date |-> earliestPossible, error |-> ""]
        ELSE findNextShiftStart(earliestPossible, shifts)

getEarliestStartTime(parentEndTimes, workCenterAvailableFrom, shifts) ==
    LET latestParentEnd == latestOf(parentEndTimes, 1, Epoch)
        wcAvailable == workCenterAvailableFrom
        parentsDone == latestParentEnd
        earliestPossible == IF wcAvailable > parentsDone THEN wcAvailable ELSE parentsDone
        shift == getShiftForDay(weekday(earliestPossible), shifts)
        shiftStart == setHour(earliestPossible, shift.startHour)
        shiftEnd == setHour(earliestPossible, shift.endHour)
    IN  IF shift = NoShift THEN findNextShiftStart(earliestPossible, shifts)
        ELSE IF earliestPossible < shiftStart
        THEN [ok |-> TRUE, date |-> shiftStart, error |-> ""]
        ELSE IF earliestPossible < shiftEnd
        THEN [ok |-> TRUE, date |-> earliestPossible, error |-> ""]
        ELSE findNextShiftStart(earliestPossible, shifts)

(***************************************************************************)
(* DependencyGraph                                                         *)
(*                                                                         *)
(* A Map is modelled by its keys in insertion order (nodes) and a function *)
(* over them; a Set<string> by a sequence without repetitions, also in     *)
(* insertion order, since the traversals iterate in that order.            *)
(***************************************************************************)
SeqToSet(s) == {s[i] : i \in 1..Len(s)}

\* Set.add
setAdd(s, x) == IF x \in SeqToSet(s) THEN s ELSE Append(s, x)

\* The keys of the maps after the first loop of buildGraph.
RECURSIVE nodeKeys(_, _, _)
nodeKeys(wos, k, keys) ==
    IF k > Len(wos) THEN keys
    ELSE nodeKeys(wos, k + 1, setAdd(keys, wos[k].docId))

\* Map.set on workOrders: the last document given for an id stays.
lastWithId(wos, id) ==
    wos[CHOOSE k \in 1..Len(wos) :
            /\ wos[k].docId = id
            /\ \A j \in (k + 1)..Len(wos) : wos[j].docId # id]

\* The inner loop of buildGraph without the throw of lines 48-52: a parent
\* that is not a node gets no edge.
RECURSIVE addParentEdgesSkippingUnknown(_, _, _, _)
addParentEdgesSkippingUnknown(adjacencyList, childId, parentIds, k) ==
    IF k > Len(parentIds) THEN [ok |-> TRUE, adjacencyList |-> adjacencyList, missing |-> 0]
    ELSE IF parentIds[k] \notin DOMAIN adjacencyList
    THEN addParentEdgesSkippingUnknown(adjacencyList, childId, parentIds, k + 1)
    ELSE addParentEdgesSkippingUnknown(
             [adjacencyList EXCEPT ![parentIds[k]] = setAdd(@, childId)],
             childId, parentIds, k + 1)

\* The inner loop of buildGraph: the edges from the parents of one child.
RECURSIVE addParentEdges(_, _, _, _)
addParentEdges(adjacencyList, childId, parentIds, k) ==
    IF k > Len(parentIds) THEN [ok |-> TRUE, adjacencyList |-> adjacencyList, missing |-> 0]
    ELSE IF parentIds[k] \notin DOMAIN adjacencyList
    THEN [ok |-> FALSE, adjacencyList |-> adjacencyList, missing |-> parentIds[k]]
    ELSE addParentEdges([adjacencyList EXCEPT ![parentIds[k]] = setAdd(@, childId)],
                        childId, parentIds, k + 1)

parentCount(parentIds) == Len(parentIds)

\* The second loop of buildGraph.
RECURSIVE addEdges(_, _, _, _)
addEdges(wos, k, adjacencyList, inDegree) ==
    IF k > Len(wos)
    THEN [ok |-> TRUE, adjacencyList |-> adjacencyList, inDegree |-> inDegree,
          error |-> ""]
    ELSE LET childId == wos[k].docId
             parentIds == wos[k].dependsOnWorkOrderIds
             degrees == [inDegree EXCEPT ![childId] = parentCount(parentIds)]
             edges == addParentEdges(adjacencyList, childId, parentIds, 1)
         IN  IF ~edges.ok
             THEN [ok |-> FALSE, adjacencyList |-> edges.adjacencyList,
                   inDegree |-> degrees, error |-> "does not exist"]
             ELSE addEdges(wos, k + 1, edges.adjacencyList, degrees)

NoGraph == [ok |-> FALSE, error |-> "", nodes |-> <<>>, adjacencyList |-> <<>>,
            inDegree |-> <<>>, workOrders |-> <<>>]

\* new DependencyGraph(workOrders): the graph, or ok = FALSE when buildGraph throws.
buildGraph(wos) ==
    LET nodes == nodeKeys(wos, 1, <<>>)
        ids == SeqToSet(nodes)
        built == addEdges(wos, 1, [id \in ids |-> <<>>], [id \in ids |-> 0])
    IN  IF ~built.ok THEN [NoGraph EXCEPT !.error = built.error]
        ELSE [ok |-> TRUE, error |-> "", nodes |-> nodes,
              adjacencyList |-> built.adjacencyList, inDegree |-> built.inDegree,
              workOrders |-> [id \in ids |-> lastWithId(wos, id)]]

\* hasCycles: dfs(nodeId) and its loop over the neighbors; the traversal state
\* is [found, visited, recursionStack].
RECURSIVE hasCyclesDfs(_, _, _)
RECURSIVE hasCyclesNeighbors(_, _, _, _)
\* hasCyclesDfs with the node left on the recursion stack when it returns.
hasCyclesDfsKeepsStack(g, nodeId, st) ==
    hasCyclesNeighbors(g, nodeId, 1,
        [found |-> FALSE, visited |-> st.visited \cup {nodeId},
         recursionStack |-> st.recursionStack \cup {nodeId}])

hasCyclesDfs(g, nodeId, st) ==
    LET entered == [found |-> FALSE,
                    visited |-> st.visited \cup {nodeId},
                    recursionStack |-> st.recursionStack \cup {nodeId}]
        after == hasCyclesNeighbors(g, nodeId, 1, entered)
    IN  IF after.found THEN after
        ELSE [after EXCEPT !.recursionStack = @ \ {nodeId}]

hasCyclesNeighbors(g, nodeId, k, st) ==
    IF k > Len(g.adjacencyList[nodeId]) THEN st
    ELSE LET neighborId == g.adjacencyList[nodeId][k]
         IN  IF neighborId \notin st.visited
             THEN LET sub == hasCyclesDfs(g, neighborId, st)
                  IN  IF sub.found THEN sub
                      ELSE hasCyclesNeighbors(g, nodeId, k + 1, sub)
             ELSE IF neighborId \in st.recursionStack
             THEN [st EXCEPT !.found = TRUE]
             ELSE hasCyclesNeighbors(g, nodeId, k + 1, st)

RECURSIVE hasCyclesRoots(_, _, _)
hasCyclesRoots(g, k, st) ==
    IF k > Len(g.nodes) THEN FALSE
    ELSE IF g.nodes[k] \in st.visited THEN hasCyclesRoots(g, k + 1, st)
    ELSE LET sub == hasCyclesDfs(g, g.nodes[k], st)
         IN  IF sub.found THEN TRUE ELSE hasCyclesRoots(g, k + 1, sub)

hasCycles(g) ==
    hasCyclesRoots(g, 1, [found |-> FALSE, visited |-> {}, recursionStack |-> {}])

\* Array.indexOf / Array.slice
indexOf(s, x) == CHOOSE i \in 1..Len(s) : s[i] = x /\ \A j \in 1..(i - 1) : s[j] # x
sliceFrom(s, i) == SubSeq(s, i, Len(s))
pop(s) == SubSeq(s, 1, Len(s) - 1)

\* getCycle: the same traversal with the recursion stack kept as an array; the
\* state is [cycle, visited, recursionStack], cycle = <<>> standing for null.
\* (The parent map of the source is written and never read.)
RECURSIVE getCycleDfs(_, _, _)
RECURSIVE getCycleNeighbors(_, _, _, _)
\* getCycleDfs without the pop of the recursion stack on return.
getCycleDfsWithoutPop(g, nodeId, st) ==
    getCycleNeighbors(g, nodeId, 1,
        [cycle |-> <<>>, visited |-> st.visited \cup {nodeId},
         recursionStack |-> Append(st.recursionStack, nodeId)])

getCycleDfs(g, nodeId, st) ==
    LET entered == [cycle |-> <<>>,
                    visited |-> st.visited \cup {nodeId},
                    recursionStack |-> Append(st.recursionStack, nodeId)]
        after == getCycleNeighbors(g, nodeId, 1, entered)
    IN  IF after.cycle # <<>> THEN after
        ELSE [after EXCEPT !.recursionStack = pop(@)]

getCycleNeighbors(g, nodeId, k, st) ==
    IF k > Len(g.adjacencyList[nodeId]) THEN st
    ELSE LET neighborId == g.adjacencyList[nodeId][k]
         IN  IF neighborId \notin st.visited
             THEN LET sub == getCycleDfs(g, neighborId, st)
                  IN  IF sub.cycle # <<>> THEN sub
                      ELSE getCycleNeighbors(g, nodeId, k + 1, sub)
             ELSE IF neighborId \in SeqToSet(st.recursionStack)
             THEN [st EXCEPT !.cycle =
                       sliceFrom(st.recursionStack, indexOf(st.recursionStack, neighborId))]
             ELSE getCycleNeighbors(g, nodeId, k + 1, st)

RECURSIVE getCycleRoots(_, _, _)
getCycleRoots(g, k, st) ==
    IF k > Len(g.nodes) THEN <<>>
    ELSE IF g.nodes[k] \in st.visited THEN getCycleRoots(g, k + 1, st)
    ELSE LET sub == getCycleDfs(g, g.nodes[k], st)
         IN  IF sub.cycle # <<>> THEN sub.cycle ELSE getCycleRoots(g, k + 1, sub)

\* The cycle's ids, or <<>> for null.
getCycle(g) ==
    getCycleRoots(g, 1, [cycle |-> <<>>, visited |-> {}, recursionStack |-> <<>>])

\* topologicalSort: the seeding of the queue with the nodes of in-degree 0.
RECURSIVE zeroDegreeNodes(_, _, _)
zeroDegreeNodes(g, k, queue) ==
    IF k > Len(g.nodes) THEN queue
    ELSE zeroDegreeNodes(g, k + 1,
             IF g.inDegree[g.nodes[k]] = 0 THEN Append(queue, g.nodes[k]) ELSE queue)

\* The loop over the children of a dequeued node: [queue, inDegreeClone].
RECURSIVE releaseChildren(_, _, _, _)
releaseChildren(children, k, queue, inDegreeClone) ==
    IF k > Len(children) THEN [queue |-> queue, inDegreeClone |-> inDegreeClone]
    ELSE LET childId == children[k]
             newDegree == inDegreeClone[childId] - 1
         IN  releaseChildren(children, k + 1,
                 IF newDegree = 0 THEN Append(queue, childId) ELSE queue,
                 [inDegreeClone EXCEPT ![childId] = newDegree])

\* The while loop of Kahn's algorithm.
RECURSIVE kahnLoop(_, _, _, _)
kahnLoop(g, queue, inDegreeClone, sorted) ==
    IF Len(queue) = 0 THEN sorted
    ELSE LET nodeId == Head(queue)
             released == releaseChildren(g.adjacencyList[nodeId], 1, Tail(queue),
                                         inDegreeClone)
         IN  kahnLoop(g, released.queue, released.inDegreeClone,
                      Append(sorted, g.workOrders[nodeId]))

\* The sort that hands back the documents in the order of the list.
topologicalSortInListOrder(g) ==
    IF hasCycles(g)
    THEN [ok |-> FALSE, list |-> <<>>, error |-> "Circular dependency detected"]
    ELSE [ok |-> TRUE, list |-> [i \in 1..Len(g.nodes) |-> g.workOrders[g.nodes[i]]],
          error |-> ""]

\* [ok |-> TRUE, list |-> the sorted documents] or [ok |-> FALSE, error |-> ...].
topologicalSort(g) ==
    IF hasCycles(g)
    THEN [ok |-> FALSE, list |-> <<>>, error |-> "Circular dependency detected"]
    ELSE LET sorted == kahnLoop(g, zeroDegreeNodes(g, 1, <<>>), g.inDegree, <<>>)
         IN  IF Len(sorted) # Cardinality(DOMAIN g.workOrders)
             THEN [ok |-> FALSE, list |-> <<>>,
                   error |-> "Cycle detected in dependency graph"]
             ELSE [ok |-> TRUE, list |-> sorted, error |-> ""]

\* [ok |-> TRUE, list |-> the parent documents] or the 'not found' error.
getParents(g, workOrderId) ==
    IF workOrderId \notin DOMAIN g.workOrders
    THEN [ok |-> FALSE, list |-> <<>>, error |-> "not found"]
    ELSE LET parentIds == g.workOrders[workOrderId].dependsOnWorkOrderIds
             known == SelectSeq(parentIds, LAMBDA id : id \in DOMAIN g.workOrders)
         IN  [ok |-> TRUE, list |-> [i \in 1..Len(known) |-> g.workOrders[known[i]]],
              error |-> ""]

\* [ok |-> TRUE, list |-> the child documents]: an id that is not a key of the
\* adjacency list has the empty Set for children.
getChildren(g, workOrderId) ==
    LET childIds == IF workOrderId \in DOMAIN g.adjacencyList
                    THEN g.adjacencyList[workOrderId]
                    ELSE <<>>
        known == SelectSeq(childIds, LAMBDA id : id \in DOMAIN g.workOrders)
    IN  [ok |-> TRUE, list |-> [i \in 1..Len(known) |-> g.workOrders[known[i]]],
         error |-> ""]

\* canStart asking for some parent in the completed set rather than every one.
canStartWhenSomeParentCompleted(g, workOrderId, completedWorkOrderIds) ==
    LET parents == getParents(g, workOrderId)
    IN  IF ~parents.ok THEN [ok |-> FALSE, value |-> FALSE, error |-> parents.error]
        ELSE [ok |-> TRUE,
              value |-> \E i \in 1..Len(parents.list) :
                            parents.list[i].docId \in completedWorkOrderIds,
              error |-> ""]

\* [ok |-> TRUE, value |-> the answer] or the error getParents throws.
canStart(g, workOrderId, completedWorkOrderIds) ==
    LET parents == getParents(g, workOrderId)
    IN  IF ~parents.ok THEN [ok |-> FALSE, value |-> FALSE, error |-> parents.error]
        ELSE [ok |-> TRUE,
              value |-> \A i \in 1..Len(parents.list) :
                            parents.list[i].docId \in completedWorkOrderIds,
              error |-> ""]

(***************************************************************************)
(* Inputs                                                                  *)
(***************************************************************************)
\* All sequences over S of length at most n.
RECURSIVE SeqsUpTo(_, _)
SeqsUpTo(S, n) ==
    IF n = 0 THEN {<<>>}
    ELSE LET shorter == SeqsUpTo(S, n - 1)
         IN  shorter \cup {Append(s, x) : s \in {t \in shorter : Len(t) = n - 1}, x \in S}

WorkOrder(id, wc, start, duration, maint, deps) ==
    [docId |-> id, workCenterId |-> wc, startDate |-> start,
     endDate |-> start + duration, durationMinutes |-> duration,
     isMaintenance |-> maint, dependsOnWorkOrderIds |-> deps]

NoResult == [returned |-> FALSE, updatedWorkOrders |-> <<>>, changes |-> <<>>,
             isValid |-> FALSE, violations |-> <<>>, failure |-> ""]
NoBool == [called |-> FALSE, value |-> FALSE]
NoList == [called |-> FALSE, value |-> <<>>]
NoSort == [called |-> FALSE, ok |-> FALSE, list |-> <<>>, error |-> ""]
NoCalc == [called |-> FALSE, ok |-> FALSE, date |-> 0, error |-> ""]
NoCalcIn == [startDate |-> 0, durationMinutes |-> 0, shifts |-> <<>>,
             maintenanceWindows |-> <<>>]
NoQuery == [called |-> "", workOrderId |-> 0, completedWorkOrderIds |-> {},
            ok |-> FALSE, list |-> <<>>, value |-> FALSE, error |-> ""]
NoCalls == <<>>
NoValidate == [called |-> FALSE, ok |-> FALSE, violations |-> <<>>, isValid |-> FALSE,
               error |-> ""]
NoStart == [called |-> "", fromDate |-> 0, parentEndTimes |-> <<>>,
            workCenterAvailableFrom |-> 0, shifts |-> <<>>,
            ok |-> FALSE, date |-> 0, error |-> ""]
NoLoop == [op |-> "", at |-> "idle", startDate |-> 0, durationMinutes |-> 0,
           shifts |-> <<>>, maintenanceWindows |-> <<>>, currentDate |-> 0,
           remainingMinutes |-> 0, count |-> 0, date |-> 0, error |-> ""]

(***************************************************************************)
(* The dependency graph on its own: a graph is constructed from a list of  *)
(* work orders and its queries are called on it.                           *)
(***************************************************************************)
MaxNodes == 3

\* dependsOnWorkOrderIds names no parent, one parent or two: any work order,
\* itself included, an id that is not in the list (MaxNodes + 1), and the same
\* id twice.  The graph reads a dependsOn list as a set of edges and as a
\* length, so two-parent lists are given in one order only.
GraphDependsOn ==
    LET Ids == 1..(MaxNodes + 1)
    IN  {<<>>} \cup {<<a>> : a \in Ids}
               \cup {<<p[1], p[2]>> : p \in {q \in Ids \X Ids : q[1] <= q[2]}}

GraphInit ==
    /\ \E deps \in [1..MaxNodes -> GraphDependsOn] :
           workOrders = [i \in 1..MaxNodes |->
                            WorkOrder(i, 1, At(4, 8, 0), 120, FALSE, deps[i])]
    /\ workCenters = <<>>
    /\ clock = 0
    /\ pc = "input"
    /\ dag = NoGraph
    /\ orderedWorkOrders = <<>>
    /\ workCenterAvailability = <<>>
    /\ updatedWorkOrders = <<>>
    /\ changes = <<>>
    /\ wcIdx = 0
    /\ woIdx = 0
    /\ result = NoResult
    /\ cyclesOut = NoBool
    /\ cycleOut = NoList
    /\ sortOut = NoSort
    /\ calcIn = NoCalcIn
    /\ calcOut = NoCalc
    /\ queryOut = NoQuery
    /\ validateOut = NoValidate
    /\ startOut = NoStart
    /\ loopState = NoLoop
    /\ calls = NoCalls

reflowVars == <<orderedWorkOrders, workCenterAvailability, updatedWorkOrders,
                changes, wcIdx, woIdx, result>>
inputVars == <<workOrders, workCenters>>
calcVars == <<calcIn, calcOut>>
checkVars == <<queryOut, validateOut, startOut, loopState, calls>>
graphVars == <<cyclesOut, cycleOut, sortOut>>

\* new DependencyGraph(workOrders)
Construct ==
    /\ pc = "input"
    /\ dag' = buildGraph(workOrders)
    /\ pc' = IF dag'.ok THEN "built" ELSE "threw"
    /\ UNCHANGED <<inputVars, clock, reflowVars, cyclesOut, cycleOut, sortOut, calcVars, checkVars>>

CallHasCycles ==
    /\ pc = "built"
    /\ ~cyclesOut.called
    /\ cyclesOut' = [called |-> TRUE, value |-> hasCycles(dag)]
    /\ UNCHANGED <<inputVars, clock, pc, dag, reflowVars, cycleOut, sortOut, calcVars, checkVars>>

CallGetCycle ==
    /\ pc = "built"
    /\ ~cycleOut.called
    /\ cycleOut' = [called |-> TRUE, value |-> getCycle(dag)]
    /\ UNCHANGED <<inputVars, clock, pc, dag, reflowVars, cyclesOut, sortOut, calcVars, checkVars>>

CallTopologicalSort ==
    /\ pc = "built"
    /\ ~sortOut.called
    /\ LET sorted == topologicalSort(dag)
       IN  sortOut' = [called |-> TRUE, ok |-> sorted.ok, list |-> sorted.list,
                       error |-> sorted.error]
    /\ UNCHANGED <<inputVars, clock, pc, dag, reflowVars, cyclesOut, cycleOut, calcVars, checkVars>>

GraphNext == Construct \/ CallHasCycles \/ CallGetCycle \/ CallTopologicalSort

SpecGraph == GraphInit /\ [][GraphNext]_vars

(***************************************************************************)
(* What the graph claims are measured against: the dependency relation of  *)
(* the input itself.                                                       *)
(***************************************************************************)
\* <<p, c>>: work order c names p in its dependsOn list.
DependencyEdges(wos) ==
    UNION {{<<wos[i].dependsOnWorkOrderIds[j], wos[i].docId>> :
               j \in 1..Len(wos[i].dependsOnWorkOrderIds)} : i \in 1..Len(wos)}

\* A path of at least one and at most n edges leads from a to b.
RECURSIVE PathWithin(_, _, _, _)
PathWithin(E, a, b, n) ==
    /\ n > 0
    /\ \/ <<a, b>> \in E
       \/ \E e \in E : e[1] = a /\ PathWithin(E, e[2], b, n - 1)

DirectedCycleExists(wos) ==
    \E i \in 1..Len(wos) :
        PathWithin(DependencyEdges(wos), wos[i].docId, wos[i].docId, Len(wos))

Distinct(s) == \A i, j \in 1..Len(s) : i # j => s[i] # s[j]

\* The position of the document with the given id in a list, 0 when absent.
PositionOf(list, id) ==
    IF \E k \in 1..Len(list) : list[k].docId = id
    THEN CHOOSE k \in 1..Len(list) : list[k].docId = id
    ELSE 0

\* The list holds every work order of wos exactly once, each after its parents.
IsDependencyOrder(list, wos) ==
    /\ Len(list) = Len(wos)
    /\ \A i \in 1..Len(wos) :
           Cardinality({k \in 1..Len(list) : list[k] = wos[i]}) = 1
    /\ \A k \in 1..Len(list) :
           \A j \in 1..Len(list[k].dependsOnWorkOrderIds) :
               LET at == PositionOf(list, list[k].dependsOnWorkOrderIds[j])
               IN  at > 0 /\ at < k

\* C1: for every acyclic work-order set whose dependsOn ids all exist,
\* topologicalSort() returns a list of the input's length that holds each work
\* order exactly once, every work order after all of its parents.
C1_SortOrdersEveryAcyclicInput ==
    (sortOut.called /\ ~DirectedCycleExists(workOrders))
        => (sortOut.ok /\ IsDependencyOrder(sortOut.list, workOrders))

\* C2: hasCycles() is true if and only if the dependency relation has a directed
\* cycle (a self-dependency included), and whenever it is true topologicalSort()
\* fails with the circular-dependency error instead of returning a list.
C2_HasCyclesIffDirectedCycle ==
    /\ cyclesOut.called => (cyclesOut.value <=> DirectedCycleExists(workOrders))
    /\ (sortOut.called /\ DirectedCycleExists(workOrders))
           => (~sortOut.ok /\ sortOut.list = <<>>
               /\ sortOut.error = "Circular dependency detected")
    /\ (sortOut.called /\ cyclesOut.called /\ cyclesOut.value)
           => (~sortOut.ok /\ sortOut.error = "Circular dependency detected")

C2_Witness ==
    /\ cyclesOut.called /\ cyclesOut.value
    /\ sortOut.called /\ ~sortOut.ok
    /\ <<1, 1>> \notin DependencyEdges(workOrders)
    /\ DirectedCycleExists(workOrders)

\* C3: getCycle() returns null exactly when hasCycles() is false; otherwise it
\* returns a non-empty sequence of distinct ids in which every consecutive pair
\* is a parent-to-child edge and the last id has an edge back to the first.
C3_GetCycleClosesLoop ==
    /\ (cycleOut.called /\ cyclesOut.called)
           => ((cycleOut.value = <<>>) <=> ~cyclesOut.value)
    /\ cycleOut.called
           => ((cycleOut.value = <<>>) <=> ~DirectedCycleExists(workOrders))
    /\ (cycleOut.called /\ cycleOut.value # <<>>)
           => LET c == cycleOut.value
                  E == DependencyEdges(workOrders)
              IN  /\ Distinct(c)
                  /\ \A k \in 1..(Len(c) - 1) : <<c[k], c[k + 1]>> \in E
                  /\ <<c[Len(c)], c[1]>> \in E

C3_Witness ==
    /\ cycleOut.called /\ cyclesOut.called
    /\ Len(cycleOut.value) = 3

\* Some work order names a predecessor that is not in the list.
NamesUnknownWorkOrder(wos) ==
    \E i \in 1..Len(wos) :
        \E p \in SeqToSet(wos[i].dependsOnWorkOrderIds) :
            \A j \in 1..Len(wos) : wos[j].docId # p

\* C18: constructing a DependencyGraph fails with an error if and only if some
\* dependsOn id is not the id of a work order of the list; it succeeds otherwise,
\* also when the dependencies form a cycle.
C18_ConstructionFailsIffUnknownParent ==
    pc \in {"built", "threw"} =>
        /\ (pc = "threw") <=> NamesUnknownWorkOrder(workOrders)
        /\ (pc = "threw") => (~dag.ok /\ dag.error = "does not exist")
        /\ (pc = "built") => dag.ok

\* The last work order names a known parent and then an unknown one, and the
\* others form a cycle.
C18_Witness ==
    /\ pc = "threw"
    /\ workOrders[MaxNodes].dependsOnWorkOrderIds = <<1, MaxNodes + 1>>
    /\ DirectedCycleExists(workOrders)

\* C36: for every graph that constructs successfully, topologicalSort() fails if
\* and only if hasCycles() is true, so the 'emitted count less than node count'
\* double-check never fires on an acyclic graph; this includes inputs where a
\* dependsOn list names the same existing parent more than once.
C36_SortFailsIffHasCycles ==
    (dag.ok /\ sortOut.called /\ cyclesOut.called) =>
        /\ ~sortOut.ok <=> cyclesOut.value
        /\ ~DirectedCycleExists(workOrders) => sortOut.ok

(***************************************************************************)
(* The lookups of a constructed graph, each called once for an id of the   *)
(* list or the id MaxNodes + 1 that is not in it.                          *)
(***************************************************************************)
CallGetParents ==
    /\ pc = "built"
    /\ queryOut.called = ""
    /\ \E id \in 1..(MaxNodes + 1) :
           LET parents == getParents(dag, id)
           IN  queryOut' = [NoQuery EXCEPT !.called = "getParents", !.workOrderId = id,
                                           !.ok = parents.ok, !.list = parents.list,
                                           !.error = parents.error]
    /\ UNCHANGED <<inputVars, clock, pc, dag, reflowVars, graphVars, calcVars,
                   validateOut, startOut, loopState, calls>>

CallGetChildren ==
    /\ pc = "built"
    /\ queryOut.called = ""
    /\ \E id \in 1..(MaxNodes + 1) :
           LET children == getChildren(dag, id)
           IN  queryOut' = [NoQuery EXCEPT !.called = "getChildren", !.workOrderId = id,
                                           !.ok = children.ok, !.list = children.list,
                                           !.error = children.error]
    /\ UNCHANGED <<inputVars, clock, pc, dag, reflowVars, graphVars, calcVars,
                   validateOut, startOut, loopState, calls>>

CallCanStart ==
    /\ pc = "built"
    /\ queryOut.called = ""
    /\ \E id \in 1..(MaxNodes + 1), completed \in SUBSET (1..MaxNodes) :
           LET answer == canStart(dag, id, completed)
           IN  queryOut' = [NoQuery EXCEPT !.called = "canStart", !.workOrderId = id,
                                           !.completedWorkOrderIds = completed,
                                           !.ok = answer.ok, !.value = answer.value,
                                           !.error = answer.error]
    /\ UNCHANGED <<inputVars, clock, pc, dag, reflowVars, graphVars, calcVars,
                   validateOut, startOut, loopState, calls>>

QueryNext == Construct \/ CallGetParents \/ CallGetChildren \/ CallCanStart

SpecQueries == GraphInit /\ [][QueryNext]_vars

\* The work orders of the list with an id in ids.
OrdersWithIds(wos, ids) == {wos[i] : i \in {j \in 1..Len(wos) : wos[j].docId \in ids}}

\* The ids the work order with this id names in dependsOnWorkOrderIds.
NamedBy(wos, id) ==
    UNION {SeqToSet(wos[i].dependsOnWorkOrderIds) :
              i \in {j \in 1..Len(wos) : wos[j].docId = id}}

\* The ids of the work orders that name this id in dependsOnWorkOrderIds.
Naming(wos, id) ==
    {wos[i].docId : i \in {j \in 1..Len(wos) : id \in SeqToSet(wos[j].dependsOnWorkOrderIds)}}

Unknown(wos, id) == \A i \in 1..Len(wos) : wos[i].docId # id

\* C19: getParents(id) returns exactly the work orders named in id's dependsOn,
\* getChildren(id) exactly the work orders whose dependsOn names id, and both
\* fail with an error when id is not a known work order.
C19_LookupsReturnNeighboursOrFail ==
    /\ queryOut.called = "getParents" =>
           IF Unknown(workOrders, queryOut.workOrderId) THEN ~queryOut.ok
           ELSE /\ queryOut.ok
                /\ SeqToSet(queryOut.list)
                       = OrdersWithIds(workOrders, NamedBy(workOrders, queryOut.workOrderId))
    /\ queryOut.called = "getChildren" =>
           IF Unknown(workOrders, queryOut.workOrderId) THEN ~queryOut.ok
           ELSE /\ queryOut.ok
                /\ SeqToSet(queryOut.list)
                       = OrdersWithIds(workOrders, Naming(workOrders, queryOut.workOrderId))

\* C20: canStart(id, completedSet) is true exactly when every id in id's
\* dependsOn is in completedSet: true for a work order without parents, and
\* unchanged by members of completedSet that are not parents of id.
C20_CanStartIffParentsCompleted ==
    (queryOut.called = "canStart" /\ ~Unknown(workOrders, queryOut.workOrderId)) =>
        LET parents == NamedBy(workOrders, queryOut.workOrderId)
        IN  /\ queryOut.ok
            /\ queryOut.value <=> parents \subseteq queryOut.completedWorkOrderIds
            /\ parents = {} => queryOut.value
            /\ queryOut.value
                   = canStart(dag, queryOut.workOrderId,
                              queryOut.completedWorkOrderIds \cap parents).value

\* Two parents, both completed, and a completed work order that is no parent.
C20_Witness ==
    /\ queryOut.called = "canStart"
    /\ queryOut.value
    /\ Cardinality(NamedBy(workOrders, queryOut.workOrderId)) = 2
    /\ queryOut.completedWorkOrderIds
           \ NamedBy(workOrders, queryOut.workOrderId) # {}

(***************************************************************************)
(* ConstraintChecker                                                       *)
(*                                                                         *)
(* A violation keeps what its message and details are built from: the      *)
(* type, the work order, the other work order it names (the one overlapped *)
(* or the parent, else 0) and the field judged (shift violations, else "").*)
(***************************************************************************)
Violation(type, workOrderId, otherId, field) ==
    [type |-> type, workOrderId |-> workOrderId, otherId |-> otherId, field |-> field]

NoWorkCenter == [docId |-> 0, shifts |-> <<>>, maintenanceWindows |-> <<>>]

\* new Map(workCenters.map(wc => [wc.docId, wc])).get(id): the last work center
\* of the list with that id, or undefined.
workCenterMapGet(wcs, id) ==
    IF \E k \in 1..Len(wcs) : wcs[k].docId = id
    THEN wcs[CHOOSE k \in 1..Len(wcs) :
                 /\ wcs[k].docId = id
                 /\ \A j \in (k + 1)..Len(wcs) : wcs[j].docId # id]
    ELSE NoWorkCenter

\* The keys of byWorkCenter in insertion order.
RECURSIVE workCenterKeys(_, _, _)
workCenterKeys(wos, k, keys) ==
    IF k > Len(wos) THEN keys
    ELSE workCenterKeys(wos, k + 1, setAdd(keys, wos[k].workCenterId))

\* Array.sort by start date; the sort is stable.
RECURSIVE insertByStart(_, _)
insertByStart(sorted, wo) ==
    IF sorted = <<>> THEN <<wo>>
    ELSE IF sorted[Len(sorted)].startDate - wo.startDate <= 0
    THEN Append(sorted, wo)
    ELSE Append(insertByStart(pop(sorted), wo), sorted[Len(sorted)])

\* The orders of one work center left in the order of the list.
sortByStartKeepingListOrder(orders, k, sorted) == orders

RECURSIVE sortByStart(_, _, _)
sortByStart(orders, k, sorted) ==
    IF k > Len(orders) THEN sorted
    ELSE sortByStart(orders, k + 1, insertByStart(sorted, orders[k]))

\* The scan of consecutive orders of one work center.
RECURSIVE overlapScan(_, _, _)
overlapScan(sorted, i, violations) ==
    IF ~(i < Len(sorted)) THEN violations
    ELSE LET current == sorted[i]
             next == sorted[i + 1]
         IN  overlapScan(sorted, i + 1,
                 IF timePeriodsOverlap(current.startDate, current.endDate,
                                       next.startDate, next.endDate)
                 THEN Append(violations,
                             Violation("WORK_CENTER_OVERLAP", next.docId, current.docId, ""))
                 ELSE violations)

RECURSIVE conflictsByCenter(_, _, _, _)
conflictsByCenter(wos, keys, k, violations) ==
    IF k > Len(keys) THEN violations
    ELSE LET orders == SelectSeq(wos, LAMBDA wo : wo.workCenterId = keys[k])
             sorted == sortByStart(orders, 1, <<>>)
         IN  conflictsByCenter(wos, keys, k + 1, overlapScan(sorted, 1, violations))

checkWorkCenterConflicts(wos, wcs) ==
    conflictsByCenter(wos, workCenterKeys(wos, 1, <<>>), 1, <<>>)

\* The list handed to validate after a sort of line 293 applied to the list
\* itself.
workOrdersSortedByValidate(wos, wcs) == sortByStart(wos, 1, <<>>)

\* The list handed to validate as the call leaves it.  The passes write to the
\* arrays they make: the violations, and the groups of byWorkCenter (lines
\* 278-286), which are what Array.sort of line 293 sorts in place.
workOrdersAfterValidate(wos, wcs) == wos

RECURSIVE parentScan(_, _, _, _)
parentScan(workOrder, parents, k, violations) ==
    IF k > Len(parents) THEN violations
    ELSE parentScan(workOrder, parents, k + 1,
             IF parents[k].endDate > workOrder.startDate
             THEN Append(violations,
                         Violation("DEPENDENCY_NOT_MET", workOrder.docId,
                                   parents[k].docId, ""))
             ELSE violations)

RECURSIVE dependencyScan(_, _, _, _)
dependencyScan(g, wos, k, violations) ==
    IF k > Len(wos) THEN violations
    ELSE dependencyScan(g, wos, k + 1,
             parentScan(wos[k], getParents(g, wos[k].docId).list, 1, violations))

\* The dependency pass refusing a graph with a cycle, as reflow does.
checkDependenciesRefusingCycles(wos) ==
    LET g == buildGraph(wos)
    IN  IF ~g.ok THEN [ok |-> FALSE, violations |-> <<>>, error |-> g.error]
        ELSE IF hasCycles(g)
        THEN [ok |-> FALSE, violations |-> <<>>, error |-> "Circular dependency detected"]
        ELSE [ok |-> TRUE, violations |-> dependencyScan(g, wos, 1, <<>>), error |-> ""]

\* [ok |-> TRUE, violations |-> ...], or ok = FALSE when the graph cannot be built.
checkDependencies(wos) ==
    LET g == buildGraph(wos)
    IN  IF ~g.ok THEN [ok |-> FALSE, violations |-> <<>>, error |-> g.error]
        ELSE [ok |-> TRUE, violations |-> dependencyScan(g, wos, 1, <<>>), error |-> ""]

RECURSIVE shiftScan(_, _, _, _)
shiftScan(wos, wcs, k, violations) ==
    IF k > Len(wos) THEN violations
    ELSE LET workOrder == wos[k]
             workCenter == workCenterMapGet(wcs, workOrder.workCenterId)
             shifts == workCenter.shifts
             atStart == IF ~isDuringShift(workOrder.startDate, shifts)
                        THEN Append(violations,
                                 Violation("OUTSIDE_SHIFT", workOrder.docId, 0, "startDate"))
                        ELSE violations
             atEnd == IF ~isDuringShift(workOrder.endDate, shifts)
                      THEN Append(atStart,
                               Violation("OUTSIDE_SHIFT", workOrder.docId, 0, "endDate"))
                      ELSE atStart
         IN  shiftScan(wos, wcs, k + 1,
                       IF workCenter = NoWorkCenter THEN violations ELSE atEnd)

checkShiftBoundaries(wos, wcs) == shiftScan(wos, wcs, 1, <<>>)

RECURSIVE maintenanceScan(_, _, _, _)
maintenanceScan(wos, wcs, k, violations) ==
    IF k > Len(wos) THEN violations
    ELSE LET workOrder == wos[k]
             workCenter == workCenterMapGet(wcs, workOrder.workCenterId)
         IN  maintenanceScan(wos, wcs, k + 1,
                 IF /\ workCenter # NoWorkCenter
                    /\ overlapsMaintenance(workOrder.startDate, workOrder.endDate,
                                           workCenter.maintenanceWindows)
                 THEN Append(violations,
                             Violation("DURING_MAINTENANCE", workOrder.docId, 0, ""))
                 ELSE violations)

checkMaintenanceConflicts(wos, wcs) == maintenanceScan(wos, wcs, 1, <<>>)

\* validate returning what the first pass with a finding found.
validateStoppingAtFirstFinding(wos, wcs) ==
    LET dependencies == checkDependencies(wos)
        conflicts == checkWorkCenterConflicts(wos, wcs)
        boundaries == checkShiftBoundaries(wos, wcs)
    IN  IF ~dependencies.ok
        THEN [ok |-> FALSE, violations |-> <<>>, error |-> dependencies.error]
        ELSE [ok |-> TRUE, error |-> "",
              violations |-> IF conflicts # <<>> THEN conflicts
                             ELSE IF dependencies.violations # <<>>
                             THEN dependencies.violations
                             ELSE IF boundaries # <<>> THEN boundaries
                             ELSE checkMaintenanceConflicts(wos, wcs)]

\* ConstraintChecker.validate: the four passes, concatenated.
validate(wos, wcs) ==
    LET dependencies == checkDependencies(wos)
    IN  IF ~dependencies.ok
        THEN [ok |-> FALSE, violations |-> <<>>, error |-> dependencies.error]
        ELSE [ok |-> TRUE, error |-> "",
              violations |-> checkWorkCenterConflicts(wos, wcs)
                             \o dependencies.violations
                             \o checkShiftBoundaries(wos, wcs)
                             \o checkMaintenanceConflicts(wos, wcs)]

(***************************************************************************)
(* ReflowService.reflow                                                    *)
(*                                                                         *)
(* One action per step of the method: the graph and the sort, one turn of  *)
(* the availability loop, one turn of the scheduling loop, the validation. *)
(* A throw inside the try block ends the call in the catch block.          *)
(***************************************************************************)
Message(text) == Violation(text, 0, 0, "")

\* The catch block handing back the work orders and changes built so far.
caughtKeepsSchedule(message) ==
    [returned |-> TRUE, updatedWorkOrders |-> updatedWorkOrders, changes |-> changes,
     isValid |-> FALSE, violations |-> <<Message(message)>>, failure |-> message]

\* The result built by the catch block.
caught(message) ==
    [returned |-> TRUE, updatedWorkOrders |-> <<>>, changes |-> <<>>,
     isValid |-> FALSE, violations |-> <<Message(message)>>, failure |-> message]

\* The result returned when the graph has a cycle.
cycleResult(cycle) ==
    [returned |-> TRUE, updatedWorkOrders |-> <<>>, changes |-> <<>>,
     isValid |-> FALSE, violations |-> <<Message("Circular dependency")>>,
     failure |-> "Circular dependency"]

\* Map.set
mapSet(map, key, value) ==
    [k \in DOMAIN map \cup {key} |-> IF k = key THEN value ELSE map[k]]

\* Array.find on updatedWorkOrders: the first entry with the id, if any.
findUpdated(updated, id) ==
    IF \E k \in 1..Len(updated) : updated[k].docId = id
    THEN <<updated[CHOOSE k \in 1..Len(updated) :
                       /\ updated[k].docId = id
                       /\ \A j \in 1..(k - 1) : updated[j].docId # id]>>
    ELSE <<>>

\* The end time used for a parent taken from the parent as it came in.
parentEndTimeAsGiven(updated, p) == p.endDate

\* The end time used for a parent: its updated one when it was emitted already.
parentEndTime(updated, p) ==
    LET found == findUpdated(updated, p.docId)
    IN  IF found # <<>> THEN found[1].endDate ELSE p.endDate

\* getChangeReason: the parents waited for, and whether the work center's
\* availability lies after the clock read here.
getChangeReason(workOrder, parents, wcAvailable, now) ==
    [dependencies |-> [i \in 1..Len(parents) |-> parents[i].docId],
     occupied |-> wcAvailable > now]

\* The two change entries pushed without the comparison of lines 131-134.
changeEntriesUncompared(workOrder, newStartDate, newEndDate, parents, wcAvailable, now) ==
    LET delayMinutes == newStartDate - workOrder.startDate
        reason == getChangeReason(workOrder, parents, wcAvailable, now)
    IN  << [workOrderId |-> workOrder.docId, field |-> "startDate",
            oldValue |-> workOrder.startDate, newValue |-> newStartDate,
            delayMinutes |-> delayMinutes, reason |-> reason],
           [workOrderId |-> workOrder.docId, field |-> "endDate",
            oldValue |-> workOrder.endDate, newValue |-> newEndDate,
            delayMinutes |-> delayMinutes, reason |-> reason] >>

\* The two change entries with the delay of the endDate entry taken from the
\* end dates.
changeEntriesDelayFromEnd(workOrder, newStartDate, newEndDate, parents, wcAvailable, now) ==
    IF workOrder.startDate # newStartDate \/ workOrder.endDate # newEndDate
    THEN LET reason == getChangeReason(workOrder, parents, wcAvailable, now)
         IN  << [workOrderId |-> workOrder.docId, field |-> "startDate",
                 oldValue |-> workOrder.startDate, newValue |-> newStartDate,
                 delayMinutes |-> newStartDate - workOrder.startDate, reason |-> reason],
                [workOrderId |-> workOrder.docId, field |-> "endDate",
                 oldValue |-> workOrder.endDate, newValue |-> newEndDate,
                 delayMinutes |-> newEndDate - workOrder.endDate, reason |-> reason] >>
    ELSE <<>>

changeEntries(workOrder, newStartDate, newEndDate, parents, wcAvailable, now) ==
    IF workOrder.startDate # newStartDate \/ workOrder.endDate # newEndDate
    THEN LET delayMinutes == newStartDate - workOrder.startDate
             reason == getChangeReason(workOrder, parents, wcAvailable, now)
         IN  << [workOrderId |-> workOrder.docId, field |-> "startDate",
                 oldValue |-> workOrder.startDate, newValue |-> newStartDate,
                 delayMinutes |-> delayMinutes, reason |-> reason],
                [workOrderId |-> workOrder.docId, field |-> "endDate",
                 oldValue |-> workOrder.endDate, newValue |-> newEndDate,
                 delayMinutes |-> delayMinutes, reason |-> reason] >>
    ELSE <<>>

\* The step of the try block that builds the graph and sorts it:
\* [outcome |-> "threw" | "cycle" | "sorted", ...].
reflowSort(wos) ==
    LET g == buildGraph(wos)
        sorted == topologicalSort(g)
    IN  IF ~g.ok THEN [outcome |-> "threw", graph |-> g, list |-> <<>>, error |-> g.error]
        ELSE IF hasCycles(g)
        THEN [outcome |-> "cycle", graph |-> g, list |-> getCycle(g), error |-> ""]
        ELSE IF ~sorted.ok
        THEN [outcome |-> "threw", graph |-> g, list |-> <<>>, error |-> sorted.error]
        ELSE [outcome |-> "sorted", graph |-> g, list |-> sorted.list, error |-> ""]

\* One turn of the scheduling loop for a work order that is not maintenance:
\* [ok |-> TRUE, updated, startDate, endDate, wcAvailable, parents] or the throw.
scheduleWorkOrder(g, wcs, availability, updated, workOrder, now) ==
    LET workCenter == workCenterMapGet(wcs, workOrder.workCenterId)
        parents == getParents(g, workOrder.docId).list
        ends == [i \in 1..Len(parents) |-> parentEndTime(updated, parents[i])]
        parentEndTimes == IF Len(ends) = 0 THEN <<Epoch>> ELSE ends
        wcAvailable == IF workCenter.docId \in DOMAIN availability
                       THEN availability[workCenter.docId]
                       ELSE now
        newStart == getEarliestStartTime(parentEndTimes, wcAvailable, workCenter.shifts)
        newEnd == calculateEndDate(newStart.date, workOrder.durationMinutes,
                                   workCenter.shifts, workCenter.maintenanceWindows)
        failed(message) == [ok |-> FALSE, error |-> message, startDate |-> 0,
                            endDate |-> 0, wcAvailable |-> 0, parents |-> <<>>]
    IN  IF workCenter = NoWorkCenter THEN failed("Work center not found")
        ELSE IF ~newStart.ok THEN failed(newStart.error)
        ELSE IF ~newEnd.ok THEN failed(newEnd.error)
        ELSE [ok |-> TRUE, error |-> "", startDate |-> newStart.date,
              endDate |-> newEnd.date, wcAvailable |-> wcAvailable,
              parents |-> parents]

\* The copy of the work order with durationMinutes set to the span of the new dates.
updatedWorkOrderSpanningDates(workOrder, newStartDate, newEndDate) ==
    [workOrder EXCEPT !.startDate = newStartDate, !.endDate = newEndDate,
                      !.durationMinutes = newEndDate - newStartDate]

\* The copy of the work order that carries the new dates.
updatedWorkOrder(workOrder, newStartDate, newEndDate) ==
    [workOrder EXCEPT !.startDate = newStartDate, !.endDate = newEndDate]

\* Where the try block goes after the availability loop and the scheduling loop.
afterAvailability(k) == IF k > Len(workCenters) THEN "schedule" ELSE "availability"

\* Steps 1 and 2: build the dependency graph, stop on a cycle, sort.
ReflowSort ==
    /\ pc = "start"
    /\ LET step == reflowSort(workOrders)
       IN  /\ dag' = step.graph
           /\ IF step.outcome = "sorted"
              THEN /\ orderedWorkOrders' = step.list
                   /\ pc' = afterAvailability(1)
                   /\ result' = result
              ELSE /\ orderedWorkOrders' = orderedWorkOrders
                   /\ pc' = "done"
                   /\ result' = IF step.outcome = "cycle" THEN cycleResult(step.list)
                                ELSE caught(step.error)
    /\ wcIdx' = 1
    /\ woIdx' = 1
    /\ UNCHANGED <<inputVars, clock, workCenterAvailability, updatedWorkOrders,
                   changes, graphVars, calcVars, checkVars>>

\* Step 4, one work center: read the clock, seed the availability.
ReflowAvailability ==
    /\ pc = "availability"
    /\ LET wc == workCenters[wcIdx]
           now == clock
           nextShift == findNextShiftStart(now, wc.shifts)
       IN  IF nextShift.ok
           THEN /\ workCenterAvailability' =
                       mapSet(workCenterAvailability, wc.docId, nextShift.date)
                /\ wcIdx' = wcIdx + 1
                /\ pc' = afterAvailability(wcIdx + 1)
                /\ result' = result
           ELSE /\ pc' = "done"
                /\ result' = caught(nextShift.error)
                /\ UNCHANGED <<workCenterAvailability, wcIdx>>
    /\ UNCHANGED <<inputVars, clock, dag, orderedWorkOrders, updatedWorkOrders,
                   changes, woIdx, graphVars, calcVars, checkVars>>

\* The turn of the scheduling loop with lines 74-77 left out: a maintenance
\* order is scheduled like any other.
ReflowScheduleEveryOrder ==
    /\ pc = "schedule"
    /\ woIdx <= Len(orderedWorkOrders)
    /\ LET workOrder == orderedWorkOrders[woIdx]
           step == scheduleWorkOrder(dag, workCenters, workCenterAvailability,
                                     updatedWorkOrders, workOrder, clock)
       IN  IF ~step.ok
           THEN /\ pc' = "done"
                /\ result' = caught(step.error)
                /\ UNCHANGED <<workCenterAvailability, updatedWorkOrders, changes, woIdx>>
           ELSE /\ workCenterAvailability' =
                       mapSet(workCenterAvailability, workOrder.workCenterId, step.endDate)
                /\ updatedWorkOrders' =
                       Append(updatedWorkOrders,
                              updatedWorkOrder(workOrder, step.startDate, step.endDate))
                /\ changes' = changes \o changeEntries(workOrder, step.startDate,
                                            step.endDate, step.parents,
                                            step.wcAvailable, clock)
                /\ woIdx' = woIdx + 1
                /\ UNCHANGED <<pc, result>>
    /\ UNCHANGED <<inputVars, clock, dag, orderedWorkOrders, wcIdx, graphVars, calcVars, checkVars>>

\* Step 5, one work order: pass a maintenance order through, schedule another.
ReflowSchedule ==
    /\ pc = "schedule"
    /\ woIdx <= Len(orderedWorkOrders)
    /\ LET workOrder == orderedWorkOrders[woIdx]
           step == scheduleWorkOrder(dag, workCenters, workCenterAvailability,
                                     updatedWorkOrders, workOrder, clock)
       IN  IF workOrder.isMaintenance
           THEN /\ updatedWorkOrders' = Append(updatedWorkOrders, workOrder)
                /\ woIdx' = woIdx + 1
                /\ UNCHANGED <<workCenterAvailability, changes, pc, result>>
           ELSE IF ~step.ok
           THEN /\ pc' = "done"
                /\ result' = caught(step.error)
                /\ UNCHANGED <<workCenterAvailability, updatedWorkOrders, changes, woIdx>>
           ELSE /\ workCenterAvailability' =
                       mapSet(workCenterAvailability, workOrder.workCenterId, step.endDate)
                /\ updatedWorkOrders' =
                       Append(updatedWorkOrders,
                              updatedWorkOrder(workOrder, step.startDate, step.endDate))
                /\ changes' = changes \o changeEntries(workOrder, step.startDate,
                                            step.endDate, step.parents,
                                            step.wcAvailable, clock)
                /\ woIdx' = woIdx + 1
                /\ UNCHANGED <<pc, result>>
    /\ UNCHANGED <<inputVars, clock, dag, orderedWorkOrders, wcIdx, graphVars, calcVars, checkVars>>

\* Steps 6 and 7 giving up the schedule when the validation finds a violation.
ReflowValidateAborting ==
    /\ pc = "schedule"
    /\ woIdx > Len(orderedWorkOrders)
    /\ LET checked == validate(updatedWorkOrders, workCenters)
       IN  result' = IF ~checked.ok THEN caught(checked.error)
                     ELSE IF Len(checked.violations) # 0
                     THEN caught("Schedule violates constraints")
                     ELSE [returned |-> TRUE,
                           updatedWorkOrders |-> updatedWorkOrders,
                           changes |-> changes,
                           isValid |-> TRUE,
                           violations |-> <<>>,
                           failure |-> ""]
    /\ pc' = "done"
    /\ UNCHANGED <<inputVars, clock, dag, orderedWorkOrders, workCenterAvailability,
                   updatedWorkOrders, changes, wcIdx, woIdx, graphVars, calcVars, checkVars>>

\* Steps 6 and 7: validate the schedule and return it.
ReflowValidate ==
    /\ pc = "schedule"
    /\ woIdx > Len(orderedWorkOrders)
    /\ LET checked == validate(updatedWorkOrders, workCenters)
       IN  /\ updatedWorkOrders' = workOrdersAfterValidate(updatedWorkOrders, workCenters)
           /\ result' = IF ~checked.ok THEN caught(checked.error)
                        ELSE [returned |-> TRUE,
                              updatedWorkOrders |-> updatedWorkOrders',
                              changes |-> changes,
                              isValid |-> Len(checked.violations) = 0,
                              violations |-> checked.violations,
                              failure |-> ""]
    /\ pc' = "done"
    /\ UNCHANGED <<inputVars, clock, dag, orderedWorkOrders, workCenterAvailability,
                   changes, wcIdx, woIdx, graphVars, calcVars, checkVars>>

(***************************************************************************)
(* reflow as one call: the steps above run to the end with the clock       *)
(* reading `now' at every read.                                            *)
(***************************************************************************)
\* The availability loop from work center k on: [ok, availability, error].
RECURSIVE availabilityLoop(_, _, _, _)
availabilityLoop(wcs, k, availability, now) ==
    IF k > Len(wcs) THEN [ok |-> TRUE, availability |-> availability, error |-> ""]
    ELSE LET nextShift == findNextShiftStart(now, wcs[k].shifts)
         IN  IF ~nextShift.ok
             THEN [ok |-> FALSE, availability |-> availability, error |-> nextShift.error]
             ELSE availabilityLoop(wcs, k + 1,
                                   mapSet(availability, wcs[k].docId, nextShift.date), now)

\* The scheduling loop from position k of the sorted list on:
\* [ok, updatedWorkOrders, changes, error].
RECURSIVE scheduleLoop(_, _, _, _, _, _, _, _)
scheduleLoop(g, wcs, ordered, k, availability, updated, changed, now) ==
    IF k > Len(ordered)
    THEN [ok |-> TRUE, updatedWorkOrders |-> updated, changes |-> changed, error |-> ""]
    ELSE LET workOrder == ordered[k]
             step == scheduleWorkOrder(g, wcs, availability, updated, workOrder, now)
         IN  IF workOrder.isMaintenance
             THEN scheduleLoop(g, wcs, ordered, k + 1, availability,
                               Append(updated, workOrder), changed, now)
             ELSE IF ~step.ok
             THEN [ok |-> FALSE, updatedWorkOrders |-> updated, changes |-> changed,
                   error |-> step.error]
             ELSE scheduleLoop(g, wcs, ordered, k + 1,
                               mapSet(availability, workOrder.workCenterId, step.endDate),
                               Append(updated,
                                      updatedWorkOrder(workOrder, step.startDate,
                                                       step.endDate)),
                               changed \o changeEntries(workOrder, step.startDate,
                                                        step.endDate, step.parents,
                                                        step.wcAvailable, now),
                               now)

reflowRun(wos, wcs, now) ==
    LET sorted == reflowSort(wos)
        seeded == availabilityLoop(wcs, 1, <<>>, now)
        scheduled == scheduleLoop(sorted.graph, wcs, sorted.list, 1,
                                  seeded.availability, <<>>, <<>>, now)
        checked == validate(scheduled.updatedWorkOrders, wcs)
    IN  IF sorted.outcome = "cycle" THEN cycleResult(sorted.list)
        ELSE IF sorted.outcome = "threw" THEN caught(sorted.error)
        ELSE IF ~seeded.ok THEN caught(seeded.error)
        ELSE IF ~scheduled.ok THEN caught(scheduled.error)
        ELSE IF ~checked.ok THEN caught(checked.error)
        ELSE [returned |-> TRUE,
              updatedWorkOrders |-> scheduled.updatedWorkOrders,
              changes |-> scheduled.changes,
              isValid |-> Len(checked.violations) = 0,
              violations |-> checked.violations,
              failure |-> ""]

(***************************************************************************)
(* The reflow of one input batch                                           *)
(***************************************************************************)
NumOrders == 2

\* Day 4 of the epoch is Monday 1970-01-05, day 5 the Tuesday after it.
Weekdays8to17 == [d \in 1..5 |-> [dayOfWeek |-> d, startHour |-> 8, endHour |-> 17]]
MondayOnly8to9 == <<[dayOfWeek |-> 1, startHour |-> 8, endHour |-> 9]>>
Window(start, end) == [startDate |-> start, endDate |-> end]
MondayWindow == Window(At(4, 10, 0), At(4, 14, 0))
TuesdayWindow == Window(At(5, 8, 0), At(5, 9, 0))

WorkCenter(id, shifts, windows) ==
    [docId |-> id, shifts |-> shifts, maintenanceWindows |-> windows]

\* Work center 1: weekday shifts with no, a Monday or a Tuesday maintenance
\* window, a one-hour shift a week, or no shift at all.  Work center 2, when it
\* is in the input, has plain weekday shifts.
FirstCenters ==
    {WorkCenter(1, Weekdays8to17, <<>>),
     WorkCenter(1, Weekdays8to17, <<MondayWindow>>),
     WorkCenter(1, Weekdays8to17, <<TuesdayWindow>>),
     WorkCenter(1, MondayOnly8to9, <<>>),
     WorkCenter(1, <<>>, <<>>)}

WorkCenterLists ==
    {<<wc>> : wc \in FirstCenters}
        \cup {<<wc, WorkCenter(2, Weekdays8to17, <<>>)>> : wc \in FirstCenters}

\* Two hours, or fifty-four: more than a year of one-hour Mondays.
Durations == {120, 54 * 60}

\* No parent, one parent (itself, another order, or the id NumOrders + 1 that
\* is not in the list), or two parents of the list (the same one twice included).
ReflowDependsOn ==
    {<<>>} \cup {<<a>> : a \in 1..(NumOrders + 1)}
           \cup {<<p[1], p[2]>> :
                    p \in {q \in (1..NumOrders) \X (1..NumOrders) : q[1] <= q[2]}}

\* The clock before the Monday shift starts, and at its start.
ClockValues == {At(4, 7, 0), At(4, 8, 0)}

OrderChoices ==
    [workCenterId : {1, 2}, durationMinutes : Durations, isMaintenance : BOOLEAN,
     dependsOnWorkOrderIds : ReflowDependsOn]

\* Every order is on the books for Monday 08:00.
Init ==
    /\ \E choice \in [1..NumOrders -> OrderChoices] :
           workOrders = [i \in 1..NumOrders |->
                            WorkOrder(i, choice[i].workCenterId, At(4, 8, 0),
                                      choice[i].durationMinutes,
                                      choice[i].isMaintenance,
                                      choice[i].dependsOnWorkOrderIds)]
    /\ workCenters \in WorkCenterLists
    /\ clock \in ClockValues
    /\ pc = "start"
    /\ dag = NoGraph
    /\ orderedWorkOrders = <<>>
    /\ workCenterAvailability = <<>>
    /\ updatedWorkOrders = <<>>
    /\ changes = <<>>
    /\ wcIdx = 0
    /\ woIdx = 0
    /\ result = NoResult
    /\ cyclesOut = NoBool
    /\ cycleOut = NoList
    /\ sortOut = NoSort
    /\ calcIn = NoCalcIn
    /\ calcOut = NoCalc
    /\ queryOut = NoQuery
    /\ validateOut = NoValidate
    /\ startOut = NoStart
    /\ loopState = NoLoop
    /\ calls = NoCalls

\* Time passes while the reflow runs.
Tick ==
    /\ pc \in {"availability", "schedule"}
    /\ \E later \in ClockValues : later > clock /\ clock' = later
    /\ UNCHANGED <<inputVars, pc, dag, reflowVars, graphVars, calcVars, checkVars>>

Next == ReflowSort \/ ReflowAvailability \/ ReflowSchedule \/ ReflowValidate \/ Tick

Spec == Init /\ [][Next]_vars

(***************************************************************************)
(* What the reflow claims are measured against: the input batch and the    *)
(* result returned for it.                                                 *)
(***************************************************************************)
OrderIds(wos) == {wos[i].docId : i \in 1..Len(wos)}

\* Some work order names a predecessor that is not in the batch.
UnknownPredecessor(wos) ==
    \E e \in DependencyEdges(wos) : e[1] \notin OrderIds(wos)

\* Some work center has no shift on any day.
CenterWithoutShift(wcs) == \E k \in 1..Len(wcs) : wcs[k].shifts = <<>>

RECURSIVE ShiftMinutesPerWeek(_)
ShiftMinutesPerWeek(shifts) ==
    IF shifts = <<>> THEN 0
    ELSE (Head(shifts).endHour - Head(shifts).startHour) * MinutesPerHour
             + ShiftMinutesPerWeek(Tail(shifts))

\* Some order to schedule needs more shift time than 365 days hold on its work
\* center: no weekday occurs more than 53 times in 365 days.
BeyondAYear(wos, wcs) ==
    \E i \in 1..Len(wos), k \in 1..Len(wcs) :
        /\ ~wos[i].isMaintenance
        /\ wcs[k].docId = wos[i].workCenterId
        /\ wcs[k].shifts # <<>>
        /\ wos[i].durationMinutes > 53 * ShiftMinutesPerWeek(wcs[k].shifts)

HardFailureInput ==
    \/ DirectedCycleExists(workOrders)
    \/ UnknownPredecessor(workOrders)
    \/ CenterWithoutShift(workCenters)
    \/ BeyondAYear(workOrders, workCenters)

\* The result of a hard failure: invalid, empty, and saying why.
IsFailureResult(r) ==
    /\ ~r.isValid
    /\ r.updatedWorkOrders = <<>>
    /\ r.changes = <<>>
    /\ r.violations # <<>>

\* reflow has returned, and through neither the cycle branch nor the catch block.
Rescheduled == pc = "done" /\ result.returned /\ result.failure = ""

\* The half-open intervals [startDate, endDate) of a and b share an instant.
Overlap(a, b) == a.startDate < b.endDate /\ b.startDate < a.endDate

Reports(type, id) ==
    \E k \in 1..Len(result.violations) :
        result.violations[k].type = type /\ result.violations[k].workOrderId = id

\* The work center an order of the returned schedule runs on.
CenterOf(wo) == workCenterMapGet(workCenters, wo.workCenterId)

\* C4: reflow() returns a ReflowResult for every input and lets no error escape;
\* on each hard failure (a dependency cycle, an unknown predecessor, a work
\* center with no shift in the 30-day search, the 365-day ceiling) the result is
\* invalid with no work orders, no changes and a non-empty violations list that
\* carries the failure message; no partial schedule is returned.
C4_ReflowFailsClosed ==
    pc = "done" =>
        /\ result.returned
        /\ HardFailureInput => IsFailureResult(result)
        /\ result.failure # "" =>
               /\ IsFailureResult(result)
               /\ result.violations = <<Message(result.failure)>>

\* The 365-day ceiling is hit after an earlier order of the batch was scheduled.
C4_Witness ==
    /\ pc = "done"
    /\ result.failure = "Could not schedule work order within 365 days"
    /\ updatedWorkOrders # <<>>
    /\ IsFailureResult(result)

\* C5: after a reflow without hard failure, every parent named by a work order
\* of updatedWorkOrders ends, in updatedWorkOrders, at or before that work order
\* starts, whatever the maintenance flags and work centers of the two.
C5_ParentsEndBeforeChildrenStart ==
    Rescheduled =>
        \A i, j \in 1..Len(result.updatedWorkOrders) :
            LET W == result.updatedWorkOrders[i]
                P == result.updatedWorkOrders[j]
            IN  P.docId \in SeqToSet(W.dependsOnWorkOrderIds)
                    => P.endDate <= W.startDate

\* C6: after a reflow without hard failure, no two non-maintenance work orders
\* of the same work center have overlapping intervals [startDate, endDate).
C6_NoOverlapBetweenScheduledOrders ==
    Rescheduled =>
        \A i, j \in 1..Len(result.updatedWorkOrders) :
            LET a == result.updatedWorkOrders[i]
                b == result.updatedWorkOrders[j]
            IN  (/\ i # j
                 /\ ~a.isMaintenance /\ ~b.isMaintenance
                 /\ a.workCenterId = b.workCenterId) => ~Overlap(a, b)

\* Two orders were scheduled on one work center, the second from the end of the
\* first.
C6_Witness ==
    /\ Rescheduled
    /\ Len(result.updatedWorkOrders) = 2
    /\ \A k \in 1..2 : ~result.updatedWorkOrders[k].isMaintenance
    /\ result.updatedWorkOrders[1].workCenterId = result.updatedWorkOrders[2].workCenterId
    /\ result.updatedWorkOrders[2].startDate = result.updatedWorkOrders[1].endDate
    /\ result.updatedWorkOrders[2].dependsOnWorkOrderIds = <<>>

\* C7: after a reflow without hard failure, no two work orders of any kind on
\* the same work center overlap, a rescheduled order and a maintenance work
\* order included, and the validator reports no WORK_CENTER_OVERLAP.
C7_OneOrderAtATimePerCenter ==
    Rescheduled =>
        \A i, j \in 1..Len(result.updatedWorkOrders) :
            LET a == result.updatedWorkOrders[i]
                b == result.updatedWorkOrders[j]
            IN  (i # j /\ a.workCenterId = b.workCenterId)
                    => /\ ~Overlap(a, b)
                       /\ ~Reports("WORK_CENTER_OVERLAP", a.docId)

\* C8: after a reflow without hard failure, the new start and the new end of
\* every rescheduled (non-maintenance) work order are inside a shift of its work
\* center as isDuringShift judges it, and the validator reports no OUTSIDE_SHIFT
\* for it, an order that finishes exactly at the end of a shift included.
C8_ScheduledInstantsDuringShift ==
    Rescheduled =>
        \A i \in 1..Len(result.updatedWorkOrders) :
            LET W == result.updatedWorkOrders[i]
            IN  ~W.isMaintenance
                    => /\ isDuringShift(W.startDate, CenterOf(W).shifts)
                       /\ isDuringShift(W.endDate, CenterOf(W).shifts)
                       /\ ~Reports("OUTSIDE_SHIFT", W.docId)

\* C9: after a reflow without hard failure, the interval of no rescheduled
\* (non-maintenance) work order overlaps a maintenance window of its work
\* center, and the validator reports no DURING_MAINTENANCE, wherever the window
\* begins relative to the order's start.
C9_ScheduledOutsideMaintenance ==
    Rescheduled =>
        \A i \in 1..Len(result.updatedWorkOrders) :
            LET W == result.updatedWorkOrders[i]
                windows == CenterOf(W).maintenanceWindows
            IN  ~W.isMaintenance
                    => /\ \A k \in 1..Len(windows) : ~Overlap(W, windows[k])
                       /\ ~Reports("DURING_MAINTENANCE", W.docId)

\* C12: every work order with isMaintenance = true is returned by a reflow that
\* is not a hard failure with exactly its original start and end dates, and the
\* change log has no entry for it.
C12_MaintenanceOrdersReturnedUntouched ==
    Rescheduled =>
        \A i \in 1..Len(workOrders) :
            workOrders[i].isMaintenance =>
                /\ \E k \in 1..Len(result.updatedWorkOrders) :
                       /\ result.updatedWorkOrders[k].docId = workOrders[i].docId
                       /\ result.updatedWorkOrders[k].startDate = workOrders[i].startDate
                       /\ result.updatedWorkOrders[k].endDate = workOrders[i].endDate
                /\ \A k \in 1..Len(result.updatedWorkOrders) :
                       result.updatedWorkOrders[k].docId = workOrders[i].docId
                           => result.updatedWorkOrders[k] = workOrders[i]
                /\ \A c \in 1..Len(result.changes) :
                       result.changes[c].workOrderId # workOrders[i].docId

\* A maintenance order that depends on an order the reflow moved, on the work
\* center that order occupies.
C12_Witness ==
    /\ Rescheduled
    /\ result.changes # <<>>
    /\ \E i, j \in 1..Len(workOrders) :
           /\ workOrders[i].isMaintenance
           /\ ~workOrders[j].isMaintenance
           /\ workOrders[i].dependsOnWorkOrderIds = <<workOrders[j].docId>>
           /\ workOrders[i].workCenterId = workOrders[j].workCenterId
           /\ \E k \in 1..Len(result.updatedWorkOrders) :
                  result.updatedWorkOrders[k] = workOrders[i]

\* C14: for every reflow that does not hit a hard failure, updatedWorkOrders has
\* exactly one entry per input work order (the same ids, the same count), and
\* every entry keeps the durationMinutes, the work center and the dependsOn list
\* of its input work order: only startDate and endDate may differ.
C14_OneEntryPerOrderOnlyDatesDiffer ==
    Rescheduled =>
        /\ Len(result.updatedWorkOrders) = Len(workOrders)
        /\ OrderIds(result.updatedWorkOrders) = OrderIds(workOrders)
        /\ \A i \in 1..Len(workOrders) :
               \E k \in 1..Len(result.updatedWorkOrders) :
                   /\ result.updatedWorkOrders[k]
                          = [workOrders[i] EXCEPT
                                !.startDate = result.updatedWorkOrders[k].startDate,
                                !.endDate = result.updatedWorkOrders[k].endDate]
                   /\ \A j \in 1..Len(result.updatedWorkOrders) :
                          result.updatedWorkOrders[j].docId = workOrders[i].docId => j = k

\* Both orders moved, the second emitted before the first, and the span of the
\* first no longer its duration.
C14_Witness ==
    /\ Rescheduled
    /\ Len(workOrders) = 2
    /\ result.updatedWorkOrders[1].docId = workOrders[2].docId
    /\ \A k \in 1..2 : \A i \in 1..2 : result.updatedWorkOrders[k] # workOrders[i]
    /\ \E k \in 1..2 :
           result.updatedWorkOrders[k].endDate - result.updatedWorkOrders[k].startDate
               # result.updatedWorkOrders[k].durationMinutes

\* Some work order names a work center that is not in the input.
AbsentWorkCenter(wos, wcs) ==
    \E i \in 1..Len(wos) :
        \A k \in 1..Len(wcs) : wcs[k].docId # wos[i].workCenterId

\* C15: if any input work order references a work center id that is absent from
\* the input work centers, reflow aborts: isValid = false, updatedWorkOrders
\* empty, and a violation carrying the failure message; for every work order,
\* maintenance or not, wherever it falls in the processing order.
C15_AbsentWorkCenterAborts ==
    (pc = "done" /\ AbsentWorkCenter(workOrders, workCenters)) =>
        /\ result.returned
        /\ IsFailureResult(result)

\* The call that has returned saw one reading of the clock: its result is the
\* one reflow computes with the clock standing still.
SawOneNow == pc = "done" /\ result = reflowRun(workOrders, workCenters, clock)

\* C13: reflow is idempotent on a valid result: reflowing the updatedWorkOrders
\* of a result with isValid = true again, with the same work centers and the same
\* now, yields an empty change log and the same dates for every order.
C13_ReflowOfValidResultChangesNothing ==
    (SawOneNow /\ result.isValid) =>
        LET again == reflowRun(result.updatedWorkOrders, workCenters, clock)
        IN  /\ again.changes = <<>>
            /\ Len(again.updatedWorkOrders) = Len(result.updatedWorkOrders)
            /\ \A k \in 1..Len(result.updatedWorkOrders) :
                   \E j \in 1..Len(again.updatedWorkOrders) :
                       /\ again.updatedWorkOrders[j].docId
                              = result.updatedWorkOrders[k].docId
                       /\ again.updatedWorkOrders[j].startDate
                              = result.updatedWorkOrders[k].startDate
                       /\ again.updatedWorkOrders[j].endDate
                              = result.updatedWorkOrders[k].endDate

\* A valid result in which the reflow moved a child behind its parent.
C13_Witness ==
    /\ SawOneNow
    /\ result.isValid
    /\ result.changes # <<>>
    /\ \E i \in 1..Len(workOrders) : workOrders[i].dependsOnWorkOrderIds # <<>>
    /\ reflowRun(result.updatedWorkOrders, workCenters, clock).changes = <<>>

\* The entry of the result for the work order with the id.
UpdatedOf(id) ==
    result.updatedWorkOrders[CHOOSE k \in 1..Len(result.updatedWorkOrders) :
                                 result.updatedWorkOrders[k].docId = id]

\* What the change log has to say about one work order: nothing, or its start
\* and then its end, both with the number of minutes the start moved by.
EntriesFor(o) ==
    LET u == UpdatedOf(o.docId)
    IN  IF o.isMaintenance \/ (u.startDate = o.startDate /\ u.endDate = o.endDate)
        THEN <<>>
        ELSE << [workOrderId |-> o.docId, field |-> "startDate",
                 oldValue |-> o.startDate, newValue |-> u.startDate,
                 delayMinutes |-> u.startDate - o.startDate],
                [workOrderId |-> o.docId, field |-> "endDate",
                 oldValue |-> o.endDate, newValue |-> u.endDate,
                 delayMinutes |-> u.startDate - o.startDate] >>

\* The entries for the work orders from position k of the processing order on.
RECURSIVE EntriesFrom(_)
EntriesFrom(k) ==
    IF k > Len(orderedWorkOrders) THEN <<>>
    ELSE EntriesFor(orderedWorkOrders[k]) \o EntriesFrom(k + 1)

\* A change entry without its reason.
WithoutReason(c) ==
    [workOrderId |-> c.workOrderId, field |-> c.field, oldValue |-> c.oldValue,
     newValue |-> c.newValue, delayMinutes |-> c.delayMinutes]

\* C29: the change log contains, for each non-maintenance work order whose new
\* start or end differs from its original, exactly two consecutive entries
\* (startDate, then endDate) with the old and new values and the same
\* delayMinutes (new start minus old start, in minutes), in processing order; it
\* contains no entry for unchanged orders or for maintenance orders, so its
\* length is always even.
C29_ChangeLogPairsInProcessingOrder ==
    /\ (pc = "done" /\ result.returned) => Len(result.changes) % 2 = 0
    /\ Rescheduled =>
           [k \in 1..Len(result.changes) |-> WithoutReason(result.changes[k])]
               = EntriesFrom(1)

\* The second order of the input processed first and kept where it was, the
\* first order processed after it and moved, its end by more than its start.
C29_Witness ==
    /\ Rescheduled
    /\ Len(result.changes) = 2
    /\ orderedWorkOrders[1].docId = workOrders[2].docId
    /\ \A i \in 1..Len(workOrders) : ~workOrders[i].isMaintenance
    /\ UpdatedOf(workOrders[2].docId) = workOrders[2]
    /\ result.changes[1].workOrderId = workOrders[1].docId
    /\ result.changes[1].field = "startDate"
    /\ result.changes[2].field = "endDate"
    /\ result.changes[1].delayMinutes # 0
    /\ result.changes[2].newValue - result.changes[2].oldValue
           # result.changes[2].delayMinutes

\* reflow went through the whole scheduling loop and the validation did not throw.
ScheduledEveryOrder ==
    /\ pc = "done"
    /\ orderedWorkOrders # <<>>
    /\ woIdx > Len(orderedWorkOrders)
    /\ validate(updatedWorkOrders, workCenters).ok

\* C30: in every ReflowResult, isValid is true if and only if the violations
\* list is empty; when the validation of the computed schedule finds soft
\* violations the engine does not abort but returns the complete schedule (one
\* entry per input order) with isValid = false and one violation message per
\* violation found by validate.
C30_IsValidIffNoViolations ==
    /\ (pc = "done" /\ result.returned) => (result.isValid <=> result.violations = <<>>)
    /\ ScheduledEveryOrder =>
           LET found == validate(updatedWorkOrders, workCenters).violations
           IN  /\ result.returned
               /\ result.updatedWorkOrders = updatedWorkOrders
               /\ Len(result.updatedWorkOrders) = Len(workOrders)
               /\ result.isValid <=> found = <<>>
               /\ Len(result.violations) = Len(found)
               /\ \A k \in 1..Len(found) : result.violations[k] = found[k]

\* A schedule with two violations handed back whole with isValid = false.
C30_Witness ==
    /\ ScheduledEveryOrder
    /\ ~result.isValid
    /\ Len(result.violations) = 2
    /\ Len(result.updatedWorkOrders) = Len(workOrders)
    /\ result.failure = ""

\* C31: within one reflow invocation the time source is read exactly once: every
\* work center's initial availability and every change reason are derived from
\* the same single 'now' value, so the result does not depend on the clock
\* advancing while the reflow runs: the result is the one some single reading
\* of the clock gives.
C31_ResultFromOneReadingOfTheClock ==
    (pc = "done" /\ result.returned) =>
        \E now \in ClockValues : result = reflowRun(workOrders, workCenters, now)

\* C34: reflow and ConstraintChecker.validate never modify their inputs: no step
\* of reflow changes the input work-order list, a field of an input work order,
\* the work-center list or a shift or maintenance-window list (same elements,
\* same order, same values), and the validation at the end of reflow leaves the
\* schedule it is handed as it was; rescheduled orders are emitted as new
\* copies.
C34_InputsAreNeverModified ==
    [][/\ workOrders' = workOrders
       /\ workCenters' = workCenters
       /\ (pc = "schedule" /\ woIdx > Len(orderedWorkOrders))
              => updatedWorkOrders' = updatedWorkOrders]_vars

\* reflow has returned a schedule that is not in the order of its start dates
\* and in which both orders carry new dates, and the input still has the dates
\* it came with.
C34_Witness ==
    /\ Rescheduled
    /\ Len(result.updatedWorkOrders) = 2
    /\ result.updatedWorkOrders[1].startDate > result.updatedWorkOrders[2].startDate
    /\ \A i \in 1..Len(workOrders) :
           /\ workOrders[i].startDate = At(4, 8, 0)
           /\ workOrders[i].endDate = At(4, 8, 0) + workOrders[i].durationMinutes
           /\ ~workOrders[i].isMaintenance
           /\ UpdatedOf(workOrders[i].docId) # workOrders[i]

\* The work order the scheduling loop is about to schedule, if there is one.
BeingScheduled ==
    IF pc = "schedule" /\ woIdx <= Len(orderedWorkOrders)
          /\ ~orderedWorkOrders[woIdx].isMaintenance
    THEN <<orderedWorkOrders[woIdx]>>
    ELSE <<>>

\* Every parent of the work order about to be scheduled is in updatedWorkOrders.
ParentsEmittedFirst ==
    \A k \in 1..Len(BeingScheduled) :
        \A j \in 1..Len(BeingScheduled[k].dependsOnWorkOrderIds) :
            \E u \in 1..Len(updatedWorkOrders) :
                updatedWorkOrders[u].docId = BeingScheduled[k].dependsOnWorkOrderIds[j]

\* A step leaves no work center free earlier than it was.
AvailabilityNeverDecreases ==
    \A id \in DOMAIN workCenterAvailability :
        /\ id \in DOMAIN workCenterAvailability'
        /\ workCenterAvailability'[id] >= workCenterAvailability[id]

\* C38: during the scheduling pass, at the moment any work order is scheduled
\* every one of its parents has already been emitted to updatedWorkOrders, so
\* the parent end time used is always the parent's updated one and the fallback
\* to a parent's original endDate is never taken; and each work center's
\* next-available instant never decreases as the pass proceeds.
C38_ParentsEmittedAvailabilityGrows ==
    []ParentsEmittedFirst /\ [][AvailabilityNeverDecreases]_vars

\* The second order of the input has been scheduled and its work center is
\* free later than it was seeded; the first order, its child, is next.
C38_Witness ==
    /\ pc = "schedule"
    /\ woIdx = 2
    /\ BeingScheduled = <<workOrders[1]>>
    /\ workOrders[1].dependsOnWorkOrderIds = <<2>>
    /\ ~workOrders[2].isMaintenance
    /\ Len(updatedWorkOrders) = 1
    /\ updatedWorkOrders[1].docId = 2
    /\ parentEndTime(updatedWorkOrders, workOrders[2]) # workOrders[2].endDate
    /\ workCenterAvailability[workOrders[2].workCenterId] = updatedWorkOrders[1].endDate
    /\ updatedWorkOrders[1].endDate > updatedWorkOrders[1].startDate

(***************************************************************************)
(* The date calculator on its own                                          *)
(***************************************************************************)
CalcStarts == {At(4, 8, 0), At(4, 9, 30), At(4, 16, 0), At(2, 10, 0), At(5, 8, 0)}
CalcDurations == {60, 120, 300, 540, 53 * 60, 54 * 60}
WeekendShifts == <<[dayOfWeek |-> 6, startHour |-> 9, endHour |-> 13],
                   [dayOfWeek |-> 0, startHour |-> 10, endHour |-> 12]>>
CalcShifts == {Weekdays8to17, MondayOnly8to9, WeekendShifts, <<>>}
CalcWindows == {<<>>, <<MondayWindow>>, <<TuesdayWindow>>,
                <<Window(At(4, 8, 0), At(4, 10, 0))>>,
                <<MondayWindow, TuesdayWindow>>}

CalcInit ==
    /\ calcIn \in [startDate : CalcStarts, durationMinutes : CalcDurations,
                   shifts : CalcShifts, maintenanceWindows : CalcWindows]
    /\ calcOut = NoCalc
    /\ queryOut = NoQuery
    /\ validateOut = NoValidate
    /\ startOut = NoStart
    /\ loopState = NoLoop
    /\ calls = NoCalls
    /\ workOrders = <<>>
    /\ workCenters = <<>>
    /\ clock = 0
    /\ pc = "input"
    /\ dag = NoGraph
    /\ orderedWorkOrders = <<>>
    /\ workCenterAvailability = <<>>
    /\ updatedWorkOrders = <<>>
    /\ changes = <<>>
    /\ wcIdx = 0
    /\ woIdx = 0
    /\ result = NoResult
    /\ cyclesOut = NoBool
    /\ cycleOut = NoList
    /\ sortOut = NoSort

CallCalculateEndDate ==
    /\ ~calcOut.called
    /\ LET end == calculateEndDate(calcIn.startDate, calcIn.durationMinutes,
                                   calcIn.shifts, calcIn.maintenanceWindows)
       IN  calcOut' = [called |-> TRUE, ok |-> end.ok, date |-> end.date,
                       error |-> end.error]
    /\ UNCHANGED <<inputVars, clock, pc, dag, reflowVars, graphVars, calcIn, checkVars>>

CalcNext == CallCalculateEndDate

SpecCalc == CalcInit /\ [][CalcNext]_vars

(***************************************************************************)
(* What the calculator claims are measured against: the shift table read   *)
(* as a calendar, day by day.                                              *)
(***************************************************************************)
\* The weekday of day d of the epoch, 0 = Sunday .. 6 = Saturday.
CalendarWeekday(d) == (d + 4) % 7

\* The minutes of [from, to) inside the shift hours of day d.
ShiftMinutesOfDay(d, from, to, shifts) ==
    LET todays == {k \in 1..Len(shifts) : shifts[k].dayOfWeek = CalendarWeekday(d)}
    IN  IF todays = {} THEN 0
        ELSE LET shift == shifts[CHOOSE k \in todays : TRUE]
                 opens == d * MinutesPerDay + shift.startHour * MinutesPerHour
                 closes == d * MinutesPerDay + shift.endHour * MinutesPerHour
                 first == IF from > opens THEN from ELSE opens
                 last == IF to < closes THEN to ELSE closes
             IN  IF last > first THEN last - first ELSE 0

\* The minutes of [from, to) inside shift hours on the days lo..hi.
RECURSIVE ShiftMinutesOfDays(_, _, _, _, _)
ShiftMinutesOfDays(lo, hi, from, to, shifts) ==
    IF lo > hi THEN 0
    ELSE IF lo = hi THEN ShiftMinutesOfDay(lo, from, to, shifts)
    ELSE LET mid == (lo + hi) \div 2
         IN  ShiftMinutesOfDays(lo, mid, from, to, shifts)
                 + ShiftMinutesOfDays(mid + 1, hi, from, to, shifts)

ShiftMinutesBetween(from, to, shifts) ==
    ShiftMinutesOfDays(from \div MinutesPerDay, to \div MinutesPerDay, from, to, shifts)

\* The instant is in a worked segment or at its end: after the opening of its
\* day's shift and not after its closing.
ClosesWorkedSegment(t, shifts) ==
    \E k \in 1..Len(shifts) :
        /\ shifts[k].dayOfWeek = CalendarWeekday(t \div MinutesPerDay)
        /\ t % MinutesPerDay > shifts[k].startHour * MinutesPerHour
        /\ t % MinutesPerDay <= shifts[k].endHour * MinutesPerHour

\* C11: with no maintenance windows, whenever calculateEndDate returns for a
\* positive duration, the minutes of [start, end) inside shift hours are exactly
\* durationMinutes, days without a shift giving none, and the end is the start
\* of the last worked segment plus the minutes worked in it: 120 minutes from
\* Monday 16:00 on Monday-Friday 08:00-17:00 shifts end Tuesday 09:00.
C11_EndCountsShiftMinutesExactly ==
    (/\ calcOut.called /\ calcOut.ok
     /\ calcIn.maintenanceWindows = <<>>
     /\ calcIn.durationMinutes > 0)
        => /\ ShiftMinutesBetween(calcIn.startDate, calcOut.date, calcIn.shifts)
                  = calcIn.durationMinutes
           /\ ClosesWorkedSegment(calcOut.date, calcIn.shifts)
           /\ (/\ calcIn.startDate = At(4, 16, 0)
               /\ calcIn.durationMinutes = 120
               /\ calcIn.shifts = Weekdays8to17) => calcOut.date = At(5, 9, 0)

\* Five hours from Saturday 10:00 on weekend shifts: three on Saturday, two on
\* Sunday.
C11_Witness ==
    /\ calcOut.called /\ calcOut.ok
    /\ calcIn.maintenanceWindows = <<>>
    /\ calcIn.shifts = WeekendShifts
    /\ calcIn.startDate = At(2, 10, 0)
    /\ calcIn.durationMinutes = 300
    /\ calcOut.date = At(3, 12, 0)

\* C10: calculateEndDate resumes work in the same shift after a maintenance
\* window inside it: with a window 10:00-14:00 on a day whose shift is
\* 08:00-17:00, an order of 300 minutes that starts at 08:00 completes at 15:00
\* the same day.
C10_ResumesAfterMaintenanceSameDay ==
    (/\ calcOut.called
     /\ calcIn.startDate = At(4, 8, 0)
     /\ calcIn.durationMinutes = 300
     /\ calcIn.shifts = Weekdays8to17
     /\ calcIn.maintenanceWindows = <<MondayWindow>>)
        => (calcOut.ok /\ calcOut.date = At(4, 15, 0))

\* The while loop of the call made: its final <<currentDate, remainingMinutes,
\* daysProcessed>>.
FinalPass ==
    endDateLoop(<<calcIn.startDate, calcIn.durationMinutes, 0>>, calcIn.shifts,
                calcIn.maintenanceWindows)

\* C35: calculateEndDate raises its 'could not schedule within 365 days' error
\* only if work minutes still remain when the day ceiling is reached: whenever
\* the remaining minutes reach zero within the ceiling, including on the last
\* permitted day-step, the completion instant is returned and no error is
\* raised.
C35_ErrorOnlyWhenMinutesRemain ==
    (calcOut.called /\ FinalPass[2] = 0 /\ FinalPass[3] <= maxDays) =>
        /\ calcOut.ok
        /\ calcOut.date = FinalPass[1]

(***************************************************************************)
(* The constraint checker on its own: validate() and isValid() are called  *)
(* on a schedule that no reflow produced.                                  *)
(***************************************************************************)
NumScheduled == 3

\* Periods [start, end) with start < end.  On Monday: inside one another,
\* touching, apart, ending when the first maintenance window starts, starting
\* when it ends, across both windows, and ending when the shift ends.  And one
\* on Saturday, a day without a shift.
Periods ==
    {<<At(4, 8, 0), At(4, 9, 0)>>, <<At(4, 8, 0), At(4, 12, 0)>>,
     <<At(4, 9, 0), At(4, 10, 0)>>, <<At(4, 14, 0), At(4, 15, 0)>>,
     <<At(4, 12, 0), At(4, 17, 0)>>, <<At(2, 10, 0), At(2, 11, 0)>>}

\* No parent, or one: work order 1 or 2, or the id that is not in the schedule;
\* or work order 1 named twice.
ScheduledDependsOn == {<<>>, <<1>>, <<2>>, <<NumScheduled + 1>>, <<1, 1>>}

Weekdays9to17 == [d \in 1..5 |-> [dayOfWeek |-> d, startHour |-> 9, endHour |-> 17]]
InnerMondayWindow == Window(At(4, 11, 0), At(4, 13, 0))

\* Work center 1 opens at 08:00 and has the Monday maintenance window 10:00-14:00
\* and one inside it; work center 2 opens at 09:00 and has no window.
ScheduleCenters ==
    <<WorkCenter(1, Weekdays8to17, <<MondayWindow, InnerMondayWindow>>),
      WorkCenter(2, Weekdays9to17, <<>>)>>

ScheduledChoices ==
    [workCenterId : {1, 2}, period : Periods, dependsOnWorkOrderIds : ScheduledDependsOn]

ValidateInit ==
    /\ \E choice \in [1..NumScheduled -> ScheduledChoices] :
           workOrders = [i \in 1..NumScheduled |->
                            WorkOrder(i, choice[i].workCenterId, choice[i].period[1],
                                      choice[i].period[2] - choice[i].period[1], FALSE,
                                      choice[i].dependsOnWorkOrderIds)]
    /\ workCenters = ScheduleCenters
    /\ clock = 0
    /\ pc = "input"
    /\ dag = NoGraph
    /\ orderedWorkOrders = <<>>
    /\ workCenterAvailability = <<>>
    /\ updatedWorkOrders = <<>>
    /\ changes = <<>>
    /\ wcIdx = 0
    /\ woIdx = 0
    /\ result = NoResult
    /\ cyclesOut = NoBool
    /\ cycleOut = NoList
    /\ sortOut = NoSort
    /\ calcIn = NoCalcIn
    /\ calcOut = NoCalc
    /\ queryOut = NoQuery
    /\ validateOut = NoValidate
    /\ startOut = NoStart
    /\ loopState = NoLoop
    /\ calls = NoCalls

\* ConstraintChecker.validate(workOrders, workCenters) and isValid of the same.
CallValidate ==
    /\ ~validateOut.called
    /\ LET checked == validate(workOrders, workCenters)
       IN  validateOut' = [called |-> TRUE, ok |-> checked.ok,
                           violations |-> checked.violations,
                           isValid |-> checked.ok /\ Len(checked.violations) = 0,
                           error |-> checked.error]
    /\ workOrders' = workOrdersAfterValidate(workOrders, workCenters)
    /\ UNCHANGED <<workCenters, clock, pc, dag, reflowVars, graphVars, calcVars, queryOut,
                   startOut, loopState, calls>>

ValidateNext == CallValidate

SpecValidate == ValidateInit /\ [][ValidateNext]_vars

(***************************************************************************)
(* What the checker claims are measured against: the schedule itself.      *)
(***************************************************************************)
\* Two work orders with start < end on one work center share an instant.
OverlappingPair(wos) ==
    \E i, j \in 1..Len(wos) :
        /\ i # j
        /\ wos[i].workCenterId = wos[j].workCenterId
        /\ wos[i].startDate < wos[i].endDate
        /\ wos[j].startDate < wos[j].endDate
        /\ Overlap(wos[i], wos[j])

\* Every parent named is in the schedule and ends at or before the child starts.
ParentsEndFirst(wos) ==
    \A i \in 1..Len(wos) :
        \A p \in SeqToSet(wos[i].dependsOnWorkOrderIds) :
            /\ \E j \in 1..Len(wos) : wos[j].docId = p
            /\ \A j \in 1..Len(wos) :
                   wos[j].docId = p => wos[j].endDate <= wos[i].startDate

\* The hour of the instant is in [startHour, endHour) of a shift of its weekday.
InShiftHours(t, shifts) ==
    \E k \in 1..Len(shifts) :
        /\ shifts[k].dayOfWeek = CalendarWeekday(t \div MinutesPerDay)
        /\ (t % MinutesPerDay) \div MinutesPerHour >= shifts[k].startHour
        /\ (t % MinutesPerDay) \div MinutesPerHour < shifts[k].endHour

\* Every work order is on a work center of the list, starts and ends in its
\* shift hours and shares no instant with one of its maintenance windows.
WithinShiftsOutsideWindows(wos, wcs) ==
    \A i \in 1..Len(wos) :
        /\ \E k \in 1..Len(wcs) : wcs[k].docId = wos[i].workCenterId
        /\ \A k \in 1..Len(wcs) :
               wcs[k].docId = wos[i].workCenterId =>
                   /\ InShiftHours(wos[i].startDate, wcs[k].shifts)
                   /\ InShiftHours(wos[i].endDate, wcs[k].shifts)
                   /\ \A w \in 1..Len(wcs[k].maintenanceWindows) :
                          ~Overlap(wos[i], wcs[k].maintenanceWindows[w])

ValidSchedule(wos, wcs) ==
    /\ ~OverlappingPair(wos)
    /\ ParentsEndFirst(wos)
    /\ WithinShiftsOutsideWindows(wos, wcs)

HasViolation(type) ==
    \E k \in 1..Len(validateOut.violations) : validateOut.violations[k].type = type

C17_ValidScheduleHasNoViolation ==
    (validateOut.called /\ ValidSchedule(workOrders, workCenters))
        => /\ validateOut.ok
           /\ validateOut.violations = <<>>
           /\ validateOut.isValid

\* On the work center with the window 10:00-14:00: 08:00-09:00, then its child
\* 09:00-10:00, which touches it and ends when the window starts.
C17_Witness ==
    /\ validateOut.called
    /\ ValidSchedule(workOrders, workCenters)
    /\ \E i, j \in 1..NumScheduled :
           /\ workOrders[i].workCenterId = 1 /\ workOrders[j].workCenterId = 1
           /\ workOrders[i].endDate = workOrders[j].startDate
           /\ workOrders[j].dependsOnWorkOrderIds = <<workOrders[i].docId>>
           /\ workOrders[j].endDate = MondayWindow.startDate
    /\ validateOut.isValid

ReportsFor(type, id) ==
    \E k \in 1..Len(validateOut.violations) :
        /\ validateOut.violations[k].type = type
        /\ validateOut.violations[k].workOrderId = id

\* C24: in the validator's work-center overlap pass, sorting a work center's
\* orders by start time and testing only adjacent pairs is sufficient: every
\* pair of orders on the same work center whose half-open intervals overlap is
\* a pair of neighbours in the sorted list, so every work order that overlaps
\* an earlier-starting order on its work center is reported with a
\* WORK_CENTER_OVERLAP violation.
C24_AdjacentPairsFindEveryOverlap ==
    (validateOut.called /\ validateOut.ok) =>
        \A i, j \in 1..Len(workOrders) :
            (/\ workOrders[i].workCenterId = workOrders[j].workCenterId
             /\ workOrders[j].startDate < workOrders[i].startDate
             /\ Overlap(workOrders[i], workOrders[j]))
                => ReportsFor("WORK_CENTER_OVERLAP", workOrders[i].docId)

\* How many violations of the type name the work order and the other one.
ReportCount(type, id, otherId) ==
    Cardinality({k \in 1..Len(validateOut.violations) :
                    /\ validateOut.violations[k].type = type
                    /\ validateOut.violations[k].workOrderId = id
                    /\ validateOut.violations[k].otherId = otherId})

\* The parent is named by the child and ends after the child starts.
ParentEndsLate(child, parent) ==
    /\ parent.docId \in SeqToSet(child.dependsOnWorkOrderIds)
    /\ parent.endDate > child.startDate

\* C25: the validator's dependency pass reports exactly one DEPENDENCY_NOT_MET
\* violation for each (child, parent) pair in which the parent's endDate is
\* strictly later than the child's startDate, and none for any other pair; a
\* child that starts at the very instant its parent ends is not a violation.
C25_OneViolationPerLateParent ==
    (validateOut.called /\ validateOut.ok) =>
        \A i, j \in 1..Len(workOrders) :
            ReportCount("DEPENDENCY_NOT_MET", workOrders[i].docId, workOrders[j].docId)
                = IF ParentEndsLate(workOrders[i], workOrders[j]) THEN 1 ELSE 0

\* The place of a violation type in the order of the passes.
PassOf(type) ==
    CASE type = "WORK_CENTER_OVERLAP" -> 1
      [] type = "DEPENDENCY_NOT_MET" -> 2
      [] type = "OUTSIDE_SHIFT" -> 3
      [] type = "DURING_MAINTENANCE" -> 4

\* The work center of the list an order of the schedule is on, if any.
CentersOf(wo) == {k \in 1..Len(workCenters) : workCenters[k].docId = wo.workCenterId}

ShiftReportCount(id, field) ==
    Cardinality({k \in 1..Len(validateOut.violations) :
                    /\ validateOut.violations[k].type = "OUTSIDE_SHIFT"
                    /\ validateOut.violations[k].workOrderId = id
                    /\ validateOut.violations[k].field = field})

\* C27: the validator's shift pass reports an OUTSIDE_SHIFT violation for a work
\* order's start (respectively end) if and only if its work center has no shift
\* on that instant's weekday or the instant's hour-of-day is outside the
\* half-open range [startHour, endHour); start and end are judged
\* independently, so one order can produce two OUTSIDE_SHIFT violations, and an
\* end instant exactly at endHour:00 is reported.
C27_OutsideShiftIffOutsideHours ==
    (validateOut.called /\ validateOut.ok) =>
        \A i \in 1..Len(workOrders) : \A k \in CentersOf(workOrders[i]) :
            /\ ShiftReportCount(workOrders[i].docId, "startDate")
                   = IF InShiftHours(workOrders[i].startDate, workCenters[k].shifts)
                     THEN 0 ELSE 1
            /\ ShiftReportCount(workOrders[i].docId, "endDate")
                   = IF InShiftHours(workOrders[i].endDate, workCenters[k].shifts)
                     THEN 0 ELSE 1

\* A Saturday order reported for start and end, an order that starts before its
\* work center opens reported for the start alone, and an order that ends when
\* the shift ends reported for the end alone.
C27_Witness ==
    /\ validateOut.called
    /\ validateOut.ok
    /\ \E i, j, k \in 1..Len(workOrders) :
           /\ workOrders[i].startDate = At(2, 10, 0)
           /\ ShiftReportCount(workOrders[i].docId, "startDate") = 1
           /\ ShiftReportCount(workOrders[i].docId, "endDate") = 1
           /\ workOrders[j].startDate = At(4, 8, 0) /\ workOrders[j].endDate = At(4, 9, 0)
           /\ workOrders[j].workCenterId = 2
           /\ ShiftReportCount(workOrders[j].docId, "startDate") = 1
           /\ ShiftReportCount(workOrders[j].docId, "endDate") = 0
           /\ workOrders[k].endDate = At(4, 17, 0)
           /\ ShiftReportCount(workOrders[k].docId, "startDate") = 0
           /\ ShiftReportCount(workOrders[k].docId, "endDate") = 1

\* C28: the validator's maintenance pass reports exactly one DURING_MAINTENANCE
\* violation for a work order if and only if its interval satisfies
\* start < w.end and end > w.start for at least one maintenance window w of its
\* work center (an order ending exactly at a window's start, or starting exactly
\* at a window's end, is not reported), however many windows it overlaps.
C28_OneMaintenanceViolationIffOverlap ==
    (validateOut.called /\ validateOut.ok) =>
        \A i \in 1..Len(workOrders) : \A k \in CentersOf(workOrders[i]) :
            ReportCount("DURING_MAINTENANCE", workOrders[i].docId, 0)
                = IF \E w \in 1..Len(workCenters[k].maintenanceWindows) :
                         /\ workOrders[i].startDate
                                < workCenters[k].maintenanceWindows[w].endDate
                         /\ workOrders[i].endDate
                                > workCenters[k].maintenanceWindows[w].startDate
                  THEN 1 ELSE 0

\* On the work center with the windows 10:00-14:00 and 11:00-13:00: an order
\* across both reported once, one that ends at 10:00 and one that starts at
\* 14:00 not reported.
C28_Witness ==
    /\ validateOut.called
    /\ validateOut.ok
    /\ \A i \in 1..Len(workOrders) : workOrders[i].workCenterId = 1
    /\ workOrders[1].startDate = At(4, 8, 0) /\ workOrders[1].endDate = At(4, 12, 0)
    /\ workOrders[2].endDate = At(4, 10, 0)
    /\ workOrders[3].startDate = At(4, 14, 0)
    /\ ReportCount("DURING_MAINTENANCE", workOrders[1].docId, 0) = 1
    /\ ReportCount("DURING_MAINTENANCE", workOrders[2].docId, 0) = 0
    /\ ReportCount("DURING_MAINTENANCE", workOrders[3].docId, 0) = 0

\* C39: ConstraintChecker.validate returns a violation list for every schedule
\* whose dependsOn ids all exist, including schedules whose dependency relation
\* is cyclic; when a work order names a predecessor that is not in the validated
\* schedule, validate raises the graph's construction error instead of
\* returning violations.
C39_ValidateThrowsOnlyOnUnknownParent ==
    validateOut.called =>
        /\ validateOut.ok <=> ~NamesUnknownWorkOrder(workOrders)
        /\ ~validateOut.ok =>
               /\ validateOut.violations = <<>>
               /\ validateOut.error # ""
               /\ validateOut.error = buildGraph(workOrders).error

\* A schedule in which work orders 1 and 2 wait for one another: validate
\* returns its findings, a dependency violation among them.
C39_Witness ==
    /\ validateOut.called
    /\ validateOut.ok
    /\ workOrders[1].dependsOnWorkOrderIds = <<2>>
    /\ workOrders[2].dependsOnWorkOrderIds = <<1>>
    /\ DirectedCycleExists(workOrders)
    /\ ReportCount("DEPENDENCY_NOT_MET", workOrders[1].docId, workOrders[2].docId) = 1

(***************************************************************************)
(* The start-time searches on their own: findNextShiftStart and            *)
(* getEarliestStartTime are called on an instant and a shift table.        *)
(***************************************************************************)
\* A night shift that starts at midnight, alone and before a day shift.
MondayNight0to8 == <<[dayOfWeek |-> 1, startHour |-> 0, endHour |-> 8]>>
MondayNightWednesdayDay ==
    <<[dayOfWeek |-> 1, startHour |-> 0, endHour |-> 8],
      [dayOfWeek |-> 3, startHour |-> 8, endHour |-> 17]>>

StartShifts ==
    {Weekdays8to17, MondayOnly8to9, WeekendShifts, MondayNight0to8,
     MondayNightWednesdayDay, <<>>}

\* Saturday, Sunday, Monday before, at, in and after the day shift, Tuesday
\* midnight.
StartInstants ==
    {At(2, 10, 0), At(3, 12, 0), At(4, 7, 0), At(4, 8, 0), At(4, 8, 30),
     At(4, 17, 0), At(4, 18, 15), At(5, 0, 0)}

StartParentEndTimes ==
    {<<>>} \cup {<<a>> : a \in StartInstants}
           \cup {<<a, b>> : a \in StartInstants, b \in StartInstants}

StartInit ==
    /\ workOrders = <<>>
    /\ workCenters = <<>>
    /\ clock = 0
    /\ pc = "input"
    /\ dag = NoGraph
    /\ orderedWorkOrders = <<>>
    /\ workCenterAvailability = <<>>
    /\ updatedWorkOrders = <<>>
    /\ changes = <<>>
    /\ wcIdx = 0
    /\ woIdx = 0
    /\ result = NoResult
    /\ cyclesOut = NoBool
    /\ cycleOut = NoList
    /\ sortOut = NoSort
    /\ calcIn = NoCalcIn
    /\ calcOut = NoCalc
    /\ queryOut = NoQuery
    /\ validateOut = NoValidate
    /\ startOut = NoStart
    /\ loopState = NoLoop
    /\ calls = NoCalls

CallFindNextShiftStart ==
    /\ startOut.called = ""
    /\ \E fromDate \in StartInstants, shifts \in StartShifts :
           LET found == findNextShiftStart(fromDate, shifts)
           IN  startOut' = [NoStart EXCEPT !.called = "findNextShiftStart",
                                           !.fromDate = fromDate, !.shifts = shifts,
                                           !.ok = found.ok, !.date = found.date,
                                           !.error = found.error]
    /\ UNCHANGED <<inputVars, clock, pc, dag, reflowVars, graphVars, calcVars,
                   queryOut, validateOut, loopState, calls>>

CallGetEarliestStartTime ==
    /\ startOut.called = ""
    /\ \E parentEndTimes \in StartParentEndTimes, workCenterAvailableFrom \in StartInstants,
          shifts \in StartShifts :
           LET found == getEarliestStartTime(parentEndTimes, workCenterAvailableFrom, shifts)
           IN  startOut' = [NoStart EXCEPT !.called = "getEarliestStartTime",
                                           !.parentEndTimes = parentEndTimes,
                                           !.workCenterAvailableFrom = workCenterAvailableFrom,
                                           !.shifts = shifts,
                                           !.ok = found.ok, !.date = found.date,
                                           !.error = found.error]
    /\ UNCHANGED <<inputVars, clock, pc, dag, reflowVars, graphVars, calcVars,
                   queryOut, validateOut, loopState, calls>>

StartNext == CallFindNextShiftStart \/ CallGetEarliestStartTime

SpecStart == StartInit /\ [][StartNext]_vars

\* The instants after t at which a shift of the table starts, on the day of t
\* and the days after it that the search looks at.
ShiftStartsAfter(t, shifts) ==
    {dk[1] * MinutesPerDay + shifts[dk[2]].startHour * MinutesPerHour :
        dk \in {x \in ((t \div MinutesPerDay)..(t \div MinutesPerDay + shiftSearchDays - 1))
                         \X (1..Len(shifts)) :
                   /\ shifts[x[2]].dayOfWeek = CalendarWeekday(x[1])
                   /\ x[1] * MinutesPerDay + shifts[x[2]].startHour * MinutesPerHour > t}}

Earliest(instants) == CHOOSE t \in instants : \A u \in instants : t <= u

\* C21: for every shift table with at least one shift (startHour < endHour,
\* startHour anywhere in 0..23) and every instant from, findNextShiftStart
\* returns the earliest instant strictly later than from at which some weekday's
\* shift starts; it fails with a 'no shift found' error only when no shift
\* starts within the bounded look-ahead.
C21_NextShiftStartIsEarliestLater ==
    (/\ startOut.called = "findNextShiftStart"
     /\ startOut.shifts # <<>>
     /\ ShiftStartsAfter(startOut.fromDate, startOut.shifts) # {})
        => /\ startOut.ok
           /\ startOut.date = Earliest(ShiftStartsAfter(startOut.fromDate, startOut.shifts))

\* The later of the latest parent end and the work center's availability.
LaterOf(parentEndTimes, workCenterAvailableFrom) ==
    Earliest({t \in SeqToSet(parentEndTimes) \cup {workCenterAvailableFrom} :
                 /\ t >= workCenterAvailableFrom
                 /\ \A k \in 1..Len(parentEndTimes) : t >= parentEndTimes[k]})

\* C22: getEarliestStartTime returns an instant t with t >= every parent end
\* time, t >= workCenterAvailableFrom and isDuringShift(t, shifts); when the
\* later of the latest parent end and the work center's availability is already
\* inside a shift, t is that instant unchanged, otherwise t is the earliest
\* shift start after it.
C22_EarliestStartIsInShiftAndEarliest ==
    (startOut.called = "getEarliestStartTime" /\ startOut.shifts # <<>>) =>
        LET later == LaterOf(startOut.parentEndTimes, startOut.workCenterAvailableFrom)
        IN  /\ startOut.ok
            /\ \A k \in 1..Len(startOut.parentEndTimes) :
                   startOut.date >= startOut.parentEndTimes[k]
            /\ startOut.date >= startOut.workCenterAvailableFrom
            /\ isDuringShift(startOut.date, startOut.shifts)
            /\ InShiftHours(startOut.date, startOut.shifts)
            /\ IF InShiftHours(later, startOut.shifts)
               THEN startOut.date = later
               ELSE startOut.date = Earliest(ShiftStartsAfter(later, startOut.shifts))

\* reflow is about to schedule the first work order of the sorted list.
AtSchedulingStart == pc = "schedule" /\ woIdx = 1 /\ updatedWorkOrders = <<>>

\* The first instant at or after now at which a shift of the table starts.
FirstShiftStartAtOrAfter(now, shifts) == Earliest(ShiftStartsAfter(now - 1, shifts))

\* C32: at the start of the scheduling pass each work center's next-available
\* instant is that center's first shift start at or after 'now', for a reading
\* 'now' of the clock made so far: if 'now' is exactly a shift start of the
\* center, the availability is 'now' itself, otherwise it is the earliest later
\* shift start.
C32_AvailabilitySeededAtOrAfterNow ==
    AtSchedulingStart =>
        \A k \in 1..Len(workCenters) :
            \E now \in ClockValues :
                /\ now <= clock
                /\ workCenters[k].docId \in DOMAIN workCenterAvailability
                /\ workCenterAvailability[workCenters[k].docId]
                       = FirstShiftStartAtOrAfter(now, workCenters[k].shifts)

\* Other dates an order may have been on the books for: a Tuesday hour, and a
\* period that starts on a Saturday.
OtherPeriods == {<<At(5, 9, 0), At(5, 10, 0)>>, <<At(2, 10, 0), At(4, 12, 0)>>}

\* The list with the dates of its non-maintenance work orders replaced.
Redated(wos, periods) ==
    [i \in 1..Len(wos) |->
        IF wos[i].isMaintenance THEN wos[i]
        ELSE [wos[i] EXCEPT !.startDate = periods[i][1], !.endDate = periods[i][2]]]

\* C37: the schedule produced by reflow does not depend on the original dates of
\* the orders it reschedules: two inputs that differ only in the startDate and
\* endDate of non-maintenance work orders (same 'now', same work centers, same
\* order of the list) yield identical updatedWorkOrders, each rescheduled order
\* starting no earlier than its work center's first shift start after 'now'.
C37_ScheduleIndependentOfOriginalDates ==
    SawOneNow =>
        /\ \A periods \in [1..Len(workOrders) -> OtherPeriods] :
               reflowRun(Redated(workOrders, periods), workCenters, clock).updatedWorkOrders
                   = result.updatedWorkOrders
        /\ \A k \in 1..Len(result.updatedWorkOrders) :
               LET u == result.updatedWorkOrders[k]
               IN  ~u.isMaintenance =>
                       \A c \in CentersOf(u) :
                           u.startDate
                               >= Earliest(ShiftStartsAfter(clock, workCenters[c].shifts))

\* A child rescheduled behind its parent, neither of them maintenance: the same
\* schedule comes out for the input with other dates, with another change log.
C37_Witness ==
    /\ SawOneNow
    /\ Rescheduled
    /\ \E i \in 1..Len(workOrders) : workOrders[i].dependsOnWorkOrderIds # <<>>
    /\ \A i \in 1..Len(workOrders) : ~workOrders[i].isMaintenance
    /\ \E periods \in [1..Len(workOrders) -> OtherPeriods] :
           LET other == reflowRun(Redated(workOrders, periods), workCenters, clock)
           IN  /\ other.updatedWorkOrders = result.updatedWorkOrders
               /\ other.changes # result.changes

(***************************************************************************)
(* The two bounded loops of DateUtils, one pass at a time: the while loop  *)
(* of calculateEndDate and the for loop of findNextShiftStart.  The method *)
(* runs to its end once called, so the passes are weakly fair.             *)
(***************************************************************************)
\* A maintenance window that covers every shift from Monday 09:00 on for more
\* than a year, and one that covers every shift from Monday 00:00 on.
WindowFromMondayNine == Window(At(4, 9, 0), At(404, 0, 0))
WindowFromMonday == Window(At(4, 0, 0), At(404, 0, 0))

LoopStarts == {At(2, 10, 0), At(4, 8, 0), At(4, 16, 0)}
LoopDurations == {120, 54 * 60}
LoopShifts == {Weekdays8to17, MondayOnly8to9, MondayNight0to8, <<>>}
LoopWindows == {<<>>, <<MondayWindow>>, <<WindowFromMondayNine>>, <<WindowFromMonday>>}

LoopInit ==
    /\ workOrders = <<>>
    /\ workCenters = <<>>
    /\ clock = 0
    /\ pc = "input"
    /\ dag = NoGraph
    /\ orderedWorkOrders = <<>>
    /\ workCenterAvailability = <<>>
    /\ updatedWorkOrders = <<>>
    /\ changes = <<>>
    /\ wcIdx = 0
    /\ woIdx = 0
    /\ result = NoResult
    /\ cyclesOut = NoBool
    /\ cycleOut = NoList
    /\ sortOut = NoSort
    /\ calcIn = NoCalcIn
    /\ calcOut = NoCalc
    /\ queryOut = NoQuery
    /\ validateOut = NoValidate
    /\ startOut = NoStart
    /\ loopState = NoLoop
    /\ calls = NoCalls

otherVars == <<inputVars, clock, pc, dag, reflowVars, graphVars, calcVars, queryOut,
               validateOut, startOut, calls>>

\* calculateEndDate is called: the state before the while loop.
EnterCalculateEndDate ==
    /\ loopState.at = "idle"
    /\ \E startDate \in LoopStarts, durationMinutes \in LoopDurations,
          shifts \in LoopShifts, maintenanceWindows \in LoopWindows :
           loopState' = [NoLoop EXCEPT !.op = "calculateEndDate", !.at = "loop",
                                       !.startDate = startDate,
                                       !.durationMinutes = durationMinutes,
                                       !.shifts = shifts,
                                       !.maintenanceWindows = maintenanceWindows,
                                       !.currentDate = startDate,
                                       !.remainingMinutes = durationMinutes,
                                       !.count = 0]
    /\ UNCHANGED otherVars

\* One pass of the while loop.
CalculateEndDatePass ==
    /\ loopState.op = "calculateEndDate"
    /\ loopState.at = "loop"
    /\ loopState.remainingMinutes > 0 /\ loopState.count < maxDays
    /\ LET next == endDateStep(<<loopState.currentDate, loopState.remainingMinutes,
                                 loopState.count>>,
                               loopState.shifts, loopState.maintenanceWindows)
       IN  loopState' = [loopState EXCEPT !.currentDate = next[1],
                                          !.remainingMinutes = next[2],
                                          !.count = next[3]]
    /\ UNCHANGED otherVars

\* The loop condition fails: throw at the ceiling, else return currentDate.
CalculateEndDateExit ==
    /\ loopState.op = "calculateEndDate"
    /\ loopState.at = "loop"
    /\ ~(loopState.remainingMinutes > 0 /\ loopState.count < maxDays)
    /\ loopState' =
           IF loopState.count >= maxDays
           THEN [loopState EXCEPT !.at = "threw",
                                  !.error = "Could not schedule work order within 365 days"]
           ELSE [loopState EXCEPT !.at = "returned", !.date = loopState.currentDate]
    /\ UNCHANGED otherVars

\* findNextShiftStart is called: the state before the for loop.
EnterFindNextShiftStart ==
    /\ loopState.at = "idle"
    /\ \E fromDate \in StartInstants, shifts \in StartShifts :
           loopState' = [NoLoop EXCEPT !.op = "findNextShiftStart", !.at = "loop",
                                       !.startDate = fromDate, !.shifts = shifts,
                                       !.currentDate = fromDate, !.count = 0]
    /\ UNCHANGED otherVars

\* One pass of the for loop: return the shift start of the day, or go on to the
\* next day.
FindNextShiftStartPass ==
    /\ loopState.op = "findNextShiftStart"
    /\ loopState.at = "loop"
    /\ loopState.count < shiftSearchDays
    /\ LET currentDate == loopState.currentDate
           shift == getShiftForDay(weekday(currentDate), loopState.shifts)
           shiftStart == setHour(currentDate, shift.startHour)
       IN  loopState' =
               IF shift # NoShift /\ shiftStart > currentDate
               THEN [loopState EXCEPT !.at = "returned", !.date = shiftStart]
               ELSE [loopState EXCEPT !.currentDate = nextDayStart(currentDate),
                                      !.count = loopState.count + 1]
    /\ UNCHANGED otherVars

\* The for loop has run out: throw.
FindNextShiftStartExit ==
    /\ loopState.op = "findNextShiftStart"
    /\ loopState.at = "loop"
    /\ ~(loopState.count < shiftSearchDays)
    /\ loopState' = [loopState EXCEPT !.at = "threw",
                                      !.error = "No shift found in the next 30 days"]
    /\ UNCHANGED otherVars

LoopNext ==
    \/ EnterCalculateEndDate \/ CalculateEndDatePass \/ CalculateEndDateExit
    \/ EnterFindNextShiftStart \/ FindNextShiftStartPass \/ FindNextShiftStartExit

SpecLoops == LoopInit /\ [][LoopNext]_vars /\ WF_vars(LoopNext)

LoopEnded == loopState.at \in {"returned", "threw"}

\* The reflow in which the call is made: one order of the duration on a work
\* center with the shifts and windows, the minute before the start.
ReflowCallingCalculateEndDate ==
    reflowRun(<<WorkOrder(1, 1, loopState.startDate, loopState.durationMinutes,
                          FALSE, <<>>)>>,
              <<WorkCenter(1, loopState.shifts, loopState.maintenanceWindows)>>,
              loopState.startDate - 1)

\* The reflow in which the call is made: a work center with the shifts, at the
\* instant searched from.
ReflowCallingFindNextShiftStart ==
    reflowRun(<<>>, <<WorkCenter(1, loopState.shifts, <<>>)>>, loopState.startDate)

\* The passes stay within the bound, a loop that runs out throws, the outcome is
\* the one the method computes, and reflow hands the error back as a failure.
LoopsWithinBounds ==
    /\ loopState.op = "calculateEndDate" =>
           /\ loopState.count <= maxDays
           /\ (LoopEnded /\ loopState.remainingMinutes > 0) =>
                  (loopState.count = maxDays /\ loopState.at = "threw")
           /\ LoopEnded =>
                  LET end == calculateEndDate(loopState.startDate, loopState.durationMinutes,
                                              loopState.shifts, loopState.maintenanceWindows)
                  IN  /\ end.ok <=> loopState.at = "returned"
                      /\ end.ok => end.date = loopState.date
                      /\ ~end.ok => end.error = loopState.error
           /\ (/\ loopState.at = "threw"
               /\ findNextShiftStart(loopState.startDate - 1, loopState.shifts)
                      = [ok |-> TRUE, date |-> loopState.startDate, error |-> ""])
                  => /\ IsFailureResult(ReflowCallingCalculateEndDate)
                     /\ ReflowCallingCalculateEndDate.failure = loopState.error
    /\ loopState.op = "findNextShiftStart" =>
           /\ loopState.count <= shiftSearchDays
           /\ (loopState.count = shiftSearchDays /\ LoopEnded) => loopState.at = "threw"
           /\ LoopEnded =>
                  LET found == findNextShiftStart(loopState.startDate, loopState.shifts)
                  IN  /\ found.ok <=> loopState.at = "returned"
                      /\ found.ok => found.date = loopState.date
                      /\ ~found.ok => found.error = loopState.error
           /\ loopState.at = "threw"
                  => /\ IsFailureResult(ReflowCallingFindNextShiftStart)
                     /\ ReflowCallingFindNextShiftStart.failure = loopState.error
    /\ loopState.at = "threw" => loopState.error # ""

\* C23: calculateEndDate and findNextShiftStart always terminate, for every
\* shift table (an empty one and one whose shifts are entirely covered by
\* maintenance windows included): calculateEndDate performs at most 365
\* day-steps and findNextShiftStart at most 30, and when the bound is reached
\* without a result each raises an explicit error, which reflow surfaces as an
\* invalid, empty result.
C23_BoundedLoopsTerminate == []LoopsWithinBounds /\ <>LoopEnded

\* calculateEndDate threw at the ceiling on shifts covered by a maintenance
\* window, for a start at which reflow makes the same call.
C23_Witness ==
    /\ loopState.op = "calculateEndDate"
    /\ loopState.at = "threw"
    /\ loopState.count = maxDays
    /\ loopState.shifts = MondayOnly8to9
    /\ loopState.maintenanceWindows = <<WindowFromMondayNine>>
    /\ loopState.startDate = At(4, 8, 0)
    /\ IsFailureResult(ReflowCallingCalculateEndDate)

(***************************************************************************)
(* Two reflow calls at once on one ReflowService.  The class has no field: *)
(* everything a call writes is a local of that call, kept here in its own  *)
(* record.  The steps of the two calls are taken in any order, and a call  *)
(* that has returned may be followed by another.  The clock stands still,  *)
(* so that a call can differ from its lone run only through the other one. *)
(***************************************************************************)
Callers == {1, 2}

\* reflow(input) is entered: the input and the locals before the first step.
NewCall(wos, wcs) ==
    [workOrders |-> wos, workCenters |-> wcs, pc |-> "start", dag |-> NoGraph,
     orderedWorkOrders |-> <<>>, workCenterAvailability |-> <<>>,
     updatedWorkOrders |-> <<>>, changes |-> <<>>, wcIdx |-> 1, woIdx |-> 1,
     result |-> NoResult]

\* Input batches that share nothing but the ids they use: two orders on one
\* work center; a child behind its parent on a center with a maintenance
\* window; a cycle; an order on a work center that is not in the input; a
\* maintenance order beside a long one.
Batches ==
    {<< <<WorkOrder(1, 1, At(4, 8, 0), 120, FALSE, <<>>),
          WorkOrder(2, 1, At(4, 8, 0), 120, FALSE, <<>>)>>,
        <<WorkCenter(1, Weekdays8to17, <<>>)>> >>,
     << <<WorkOrder(1, 1, At(4, 8, 0), 120, FALSE, <<2>>),
          WorkOrder(2, 2, At(4, 8, 0), 120, FALSE, <<>>)>>,
        <<WorkCenter(1, Weekdays8to17, <<MondayWindow>>),
          WorkCenter(2, Weekdays8to17, <<>>)>> >>,
     << <<WorkOrder(1, 1, At(4, 8, 0), 120, FALSE, <<2>>),
          WorkOrder(2, 1, At(4, 8, 0), 120, FALSE, <<1>>)>>,
        <<WorkCenter(1, Weekdays8to17, <<>>)>> >>,
     << <<WorkOrder(1, 1, At(4, 8, 0), 120, FALSE, <<>>),
          WorkOrder(2, 2, At(4, 8, 0), 120, FALSE, <<>>)>>,
        <<WorkCenter(1, Weekdays8to17, <<TuesdayWindow>>)>> >>,
     << <<WorkOrder(1, 1, At(4, 8, 0), 120, TRUE, <<>>),
          WorkOrder(2, 1, At(4, 8, 0), 54 * 60, FALSE, <<>>)>>,
        <<WorkCenter(1, Weekdays8to17, <<>>)>> >>}

\* The availability map kept by the service: every call reads the map of the
\* first.
availabilityMapOfService(all, k) == all[1].workCenterAvailability

\* The availability map a call reads and writes: the one it made at line 59,
\* whatever the other calls have in theirs.
availabilityMapOf(all, k) == all[k].workCenterAvailability

\* Steps 1 and 2 of a call.
sortStep(c) ==
    LET step == reflowSort(c.workOrders)
    IN  IF step.outcome = "sorted"
        THEN [c EXCEPT !.dag = step.graph, !.orderedWorkOrders = step.list,
                       !.pc = IF Len(c.workCenters) = 0 THEN "schedule"
                              ELSE "availability"]
        ELSE [c EXCEPT !.dag = step.graph, !.pc = "done",
                       !.result = IF step.outcome = "cycle" THEN cycleResult(step.list)
                                  ELSE caught(step.error)]

\* Step 4 of a call, one work center.
seedStep(c, now) ==
    LET wc == c.workCenters[c.wcIdx]
        nextShift == findNextShiftStart(now, wc.shifts)
    IN  IF nextShift.ok
        THEN [c EXCEPT !.workCenterAvailability = mapSet(@, wc.docId, nextShift.date),
                       !.wcIdx = @ + 1,
                       !.pc = IF c.wcIdx + 1 > Len(c.workCenters) THEN "schedule"
                              ELSE "availability"]
        ELSE [c EXCEPT !.pc = "done", !.result = caught(nextShift.error)]

\* Step 5 of call k, one work order.
scheduleStep(all, k, now) ==
    LET c == all[k]
        workOrder == c.orderedWorkOrders[c.woIdx]
        availability == availabilityMapOf(all, k)
        step == scheduleWorkOrder(c.dag, c.workCenters, availability,
                                  c.updatedWorkOrders, workOrder, now)
    IN  IF workOrder.isMaintenance
        THEN [c EXCEPT !.updatedWorkOrders = Append(@, workOrder), !.woIdx = @ + 1]
        ELSE IF ~step.ok
        THEN [c EXCEPT !.pc = "done", !.result = caught(step.error)]
        ELSE [c EXCEPT !.workCenterAvailability =
                           mapSet(availability, workOrder.workCenterId, step.endDate),
                       !.updatedWorkOrders =
                           Append(@, updatedWorkOrder(workOrder, step.startDate,
                                                      step.endDate)),
                       !.changes = @ \o changeEntries(workOrder, step.startDate,
                                                       step.endDate, step.parents,
                                                       step.wcAvailable, now),
                       !.woIdx = @ + 1]

\* Steps 6 and 7 of a call.
validateStep(c) ==
    LET checked == validate(c.updatedWorkOrders, c.workCenters)
    IN  [c EXCEPT !.pc = "done",
                  !.result = IF ~checked.ok THEN caught(checked.error)
                             ELSE [returned |-> TRUE,
                                   updatedWorkOrders |-> c.updatedWorkOrders,
                                   changes |-> c.changes,
                                   isValid |-> Len(checked.violations) = 0,
                                   violations |-> checked.violations,
                                   failure |-> ""]]

TwoCallsInit ==
    /\ calls \in [Callers -> {NewCall(b[1], b[2]) : b \in Batches}]
    /\ clock \in ClockValues
    /\ workOrders = <<>>
    /\ workCenters = <<>>
    /\ pc = "calls"
    /\ dag = NoGraph
    /\ orderedWorkOrders = <<>>
    /\ workCenterAvailability = <<>>
    /\ updatedWorkOrders = <<>>
    /\ changes = <<>>
    /\ wcIdx = 0
    /\ woIdx = 0
    /\ result = NoResult
    /\ cyclesOut = NoBool
    /\ cycleOut = NoList
    /\ sortOut = NoSort
    /\ calcIn = NoCalcIn
    /\ calcOut = NoCalc
    /\ queryOut = NoQuery
    /\ validateOut = NoValidate
    /\ startOut = NoStart
    /\ loopState = NoLoop

callerFrame == <<inputVars, clock, pc, dag, reflowVars, graphVars, calcVars, queryOut,
                 validateOut, startOut, loopState>>

CallerSorts ==
    /\ \E k \in Callers :
           /\ calls[k].pc = "start"
           /\ calls' = [calls EXCEPT ![k] = sortStep(calls[k])]
    /\ UNCHANGED callerFrame

CallerSeedsAvailability ==
    /\ \E k \in Callers :
           /\ calls[k].pc = "availability"
           /\ calls' = [calls EXCEPT ![k] = seedStep(calls[k], clock)]
    /\ UNCHANGED callerFrame

CallerSchedules ==
    /\ \E k \in Callers :
           /\ calls[k].pc = "schedule"
           /\ calls[k].woIdx <= Len(calls[k].orderedWorkOrders)
           /\ calls' = [calls EXCEPT ![k] = scheduleStep(calls, k, clock)]
    /\ UNCHANGED callerFrame

CallerValidates ==
    /\ \E k \in Callers :
           /\ calls[k].pc = "schedule"
           /\ calls[k].woIdx > Len(calls[k].orderedWorkOrders)
           /\ calls' = [calls EXCEPT ![k] = validateStep(calls[k])]
    /\ UNCHANGED callerFrame

\* A call has returned and the service is called again.
CallerInvokesAgain ==
    /\ \E k \in Callers, b \in Batches :
           /\ calls[k].pc = "done"
           /\ calls' = [calls EXCEPT ![k] = NewCall(b[1], b[2])]
    /\ UNCHANGED callerFrame

TwoCallsNext ==
    \/ CallerSorts
    \/ CallerSeedsAvailability
    \/ CallerSchedules
    \/ CallerValidates
    \/ CallerInvokesAgain

SpecTwoCalls == TwoCallsInit /\ [][TwoCallsNext]_vars

\* How many steps a call that has not returned has taken.
StepsTaken(c) ==
    IF c.pc = "start" THEN 0
    ELSE IF c.pc = "availability" THEN c.wcIdx
    ELSE Len(c.workCenters) + c.woIdx

\* The step a call takes next when it is the only call.
LoneStep(c, now) ==
    IF c.pc = "start" THEN sortStep(c)
    ELSE IF c.pc = "availability" THEN seedStep(c, now)
    ELSE IF c.pc = "schedule" /\ c.woIdx <= Len(c.orderedWorkOrders)
    THEN scheduleStep(<<c>>, 1, now)
    ELSE IF c.pc = "schedule" THEN validateStep(c)
    ELSE c

\* A call after n steps taken alone.
RECURSIVE LoneRun(_, _, _)
LoneRun(c, n, now) == IF n = 0 THEN c ELSE LoneRun(LoneStep(c, now), n - 1, now)

\* C33: two reflow invocations on independent input batches, whose steps are
\* interleaved in any order and which may use the same ReflowService instance,
\* each produce exactly the result they would produce when run alone: at every
\* moment the graph, the availability map and the output of a call are those of
\* its lone run, and the result it returns is the result of its lone run,
\* whatever the other call and the calls before it have written.
C33_InterleavedCallsRunAsIfAlone ==
    \A k \in Callers :
        IF calls[k].pc = "done"
        THEN calls[k].result
                 = reflowRun(calls[k].workOrders, calls[k].workCenters, clock)
        ELSE calls[k] = LoneRun(NewCall(calls[k].workOrders, calls[k].workCenters),
                                StepsTaken(calls[k]), clock)

\* Both calls are in their scheduling loops, each with one order emitted, and
\* their availability maps differ for the work center that both call 1.
C33_Witness ==
    /\ \A k \in Callers :
           /\ calls[k].pc = "schedule"
           /\ calls[k].woIdx = 2
           /\ 1 \in DOMAIN calls[k].workCenterAvailability
    /\ calls[1].workCenterAvailability[1] # calls[2].workCenterAvailability[1]
    /\ calls[1].updatedWorkOrders # calls[2].updatedWorkOrders

====
